---- MODULE Spec2Model ----
(***************************************************************************)
(* AlgeZip: boolean expressions, the zipper that navigates them, the       *)
(* boolean algebra axioms, the tokenizer/parser/printer and the            *)
(* interactive loop, modelled from src/src/algezip.                         *)
(*                                                                         *)
(* Python values are modelled as records whose field sets differ per       *)
(* shape, so that structural equality (==) is record equality:             *)
(*   'F' / 'T'          [t |-> "bool", val |-> "F"]                        *)
(*   Variable(name)     [t |-> "var", name |-> name]                       *)
(*   (op, arg)          [t |-> "not", op |-> op, arg |-> arg]              *)
(*   (left, op, right)  [t |-> "bin", left |-> .., op |-> .., right |-> ..]*)
(* A ConsList is a sequence whose head is the car.  A call that may raise  *)
(* returns [ok |-> TRUE, val |-> v] or [ok |-> FALSE, err |-> kind].       *)
(***************************************************************************)
EXTENDS Integers, Sequences, FiniteSets, TLC

VARIABLES
    zipper,     \* the Zipper held by the interactive loop / being navigated
    lastCmd,    \* name of the last command or method executed ("" at start)
    lastErr,    \* "none", or the exception kind the last command raised
    running,    \* FALSE once the loop has returned (q!)
    start,      \* SpecNav: the Zipper the navigation started from
    axName,     \* SpecAxioms: the axiom function applied last
    axIn,       \* SpecAxioms: the expression it was applied to
    axArg,      \* SpecAxioms: the witness argument a
    axOut,      \* SpecAxioms: what the call returned or raised
    srcFn,      \* SpecSource: the function of source.py applied last
    srcIn,      \* SpecSource: the text, token stream or Zipper it is applied to
    srcOut      \* SpecSource: what the call returned or raised

vars == <<zipper, lastCmd, lastErr, running, start, axName, axIn, axArg, axOut,
          srcFn, srcIn, srcOut>>

\* Bounds of the model.
MaxExprSize == 5
MaxDistributeSize == 7
MaxNavSize == 5
MaxAxiomSize == 5
MaxTextLen == 4
MaxWrittenSize == 5
MaxStreamLen == 5
\* Longest stream of FocusTokens given to untokenize with every choice of
\* tokens and flags / longest stream of brackets alone.
MaxFocusLen == 3
MaxBracketLen == 8

----------------------------------------------------------------------------
(* data.py: Expr *)

Ok(v) == [ok |-> TRUE, val |-> v]
Raise(kind) == [ok |-> FALSE, err |-> kind]

Boolean(b) == [t |-> "bool", val |-> b]
Variable(name) == [t |-> "var", name |-> name]
UnaryExpr(op, arg) == [t |-> "not", op |-> op, arg |-> arg]
BinaryExpr(left, op, right) == [t |-> "bin", left |-> left, op |-> op, right |-> right]

Booleans == {"F", "T"}
UnaryOps == {"!"}
BinaryOps == {"&", "|"}

F == Boolean("F")
T == Boolean("T")

IsValue(e) == e.t \in {"bool", "var"}
IsUnary(e) == e.t = "not"
IsBinary(e) == e.t = "bin"

RECURSIVE Size(_)
\* Number of nodes of an expression.
Size(e) ==
    IF IsUnary(e) THEN 1 + Size(e.arg)
    ELSE IF IsBinary(e) THEN 1 + Size(e.left) + Size(e.right)
    ELSE 1

RECURSIVE IsExpr(_)
\* The Expr type: Boolean | Variable | (UnaryOp, Expr) | (Expr, BinaryOp, Expr).
IsExpr(e) ==
    /\ "t" \in DOMAIN e
    /\ CASE e.t = "bool" -> DOMAIN e = {"t", "val"} /\ e.val \in Booleans
         [] e.t = "var" -> DOMAIN e = {"t", "name"}
         [] e.t = "not" -> /\ DOMAIN e = {"t", "op", "arg"}
                           /\ e.op \in UnaryOps
                           /\ IsExpr(e.arg)
         [] e.t = "bin" -> /\ DOMAIN e = {"t", "left", "op", "right"}
                           /\ e.op \in BinaryOps
                           /\ IsExpr(e.left)
                           /\ IsExpr(e.right)
         [] OTHER -> FALSE

----------------------------------------------------------------------------
(* data.py: Parent, Direction, Zipper *)

\* (unary_op, '_')
NotHole(op) == [hole |-> "arg", op |-> op]
\* ('_', binary_op, right)
BinOpHoleLeft(op, right) == [hole |-> "left", op |-> op, right |-> right]
\* (left, binary_op, '_')
BinOpHoleRight(left, op) == [hole |-> "right", left |-> left, op |-> op]

ARG == "."
LEFT == "<"
RIGHT == ">"
Direction == {ARG, LEFT, RIGHT}

Zipper(expr, parents) == [expr |-> expr, parents |-> parents]

\* Mutant: a focus that was the right operand is put back as the left one.
MoveUpWithDirectionSwapped(z) ==
    IF z.parents = <<>>
    THEN Raise("NavigationError")
    ELSE LET parent == Head(z.parents)
             grandparents == Tail(z.parents)
             expr == z.expr
         IN CASE parent.hole = "arg" ->
                   Ok([zipper |-> Zipper(UnaryExpr(parent.op, expr), grandparents),
                       direction |-> ARG])
              [] parent.hole = "left" ->
                   Ok([zipper |-> Zipper(BinaryExpr(expr, parent.op, parent.right), grandparents),
                       direction |-> LEFT])
              [] parent.hole = "right" ->
                   Ok([zipper |-> Zipper(BinaryExpr(expr, parent.op, parent.left), grandparents),
                       direction |-> RIGHT])

\* Mutant: the direction back to a right operand is reported as LEFT.
MoveUpWithDirectionAlwaysLeft(z) ==
    IF z.parents = <<>>
    THEN Raise("NavigationError")
    ELSE LET parent == Head(z.parents)
             grandparents == Tail(z.parents)
             expr == z.expr
         IN CASE parent.hole = "arg" ->
                   Ok([zipper |-> Zipper(UnaryExpr(parent.op, expr), grandparents),
                       direction |-> ARG])
              [] parent.hole = "left" ->
                   Ok([zipper |-> Zipper(BinaryExpr(expr, parent.op, parent.right), grandparents),
                       direction |-> LEFT])
              [] parent.hole = "right" ->
                   Ok([zipper |-> Zipper(BinaryExpr(parent.left, parent.op, expr), grandparents),
                       direction |-> LEFT])

\* Zipper._move_up_with_direction: the parent zipper and the direction back down.
MoveUpWithDirection(z) ==
    IF z.parents = <<>>
    THEN Raise("NavigationError")
    ELSE LET parent == Head(z.parents)
             grandparents == Tail(z.parents)
             expr == z.expr
         IN CASE parent.hole = "arg" ->
                   Ok([zipper |-> Zipper(UnaryExpr(parent.op, expr), grandparents),
                       direction |-> ARG])
              [] parent.hole = "left" ->
                   Ok([zipper |-> Zipper(BinaryExpr(expr, parent.op, parent.right), grandparents),
                       direction |-> LEFT])
              [] parent.hole = "right" ->
                   Ok([zipper |-> Zipper(BinaryExpr(parent.left, parent.op, expr), grandparents),
                       direction |-> RIGHT])

\* Zipper.move_up
MoveUp(z) ==
    LET r == MoveUpWithDirection(z)
    IN IF r.ok THEN Ok(r.val.zipper) ELSE r

\* Mutant: the frame pushed has the hole and the operator exchanged.
MoveArgHoleFirst(z) ==
    IF IsUnary(z.expr)
    THEN Ok(Zipper(z.expr.arg, <<NotHole("_")>> \o z.parents))
    ELSE Raise("NavigationError")

\* Mutant: any operation counts as having an only argument.
MoveArgAnyOperation(z) ==
    IF IsUnary(z.expr)
    THEN Ok(Zipper(z.expr.arg, <<NotHole(z.expr.op)>> \o z.parents))
    ELSE IF IsBinary(z.expr)
    THEN Ok(Zipper(z.expr.right, <<BinOpHoleRight(z.expr.left, z.expr.op)>> \o z.parents))
    ELSE Raise("NavigationError")

\* Zipper.move_arg
MoveArg(z) ==
    IF IsUnary(z.expr)
    THEN Ok(Zipper(z.expr.arg, <<NotHole(z.expr.op)>> \o z.parents))
    ELSE Raise("NavigationError")

\* Zipper.move_left
MoveLeft(z) ==
    IF IsBinary(z.expr)
    THEN Ok(Zipper(z.expr.left, <<BinOpHoleLeft(z.expr.op, z.expr.right)>> \o z.parents))
    ELSE Raise("NavigationError")

\* Mutant: the frame pushed keeps the right operand where the left one belongs.
MoveRightKeepingRight(z) ==
    IF IsBinary(z.expr)
    THEN Ok(Zipper(z.expr.right, <<BinOpHoleRight(z.expr.right, z.expr.op)>> \o z.parents))
    ELSE Raise("NavigationError")

\* Zipper.move_right
MoveRight(z) ==
    IF IsBinary(z.expr)
    THEN Ok(Zipper(z.expr.right, <<BinOpHoleRight(z.expr.left, z.expr.op)>> \o z.parents))
    ELSE Raise("NavigationError")

RECURSIVE ToTopLoopAppending(_, _)
\* Mutant: each direction is added at the end of the list, innermost first.
ToTopLoopAppending(curr_zipper, directions) ==
    IF curr_zipper.parents # <<>>
    THEN LET up == MoveUpWithDirection(curr_zipper).val
         IN ToTopLoopAppending(up.zipper, directions \o <<up.direction>>)
    ELSE [expr |-> curr_zipper.expr, directions |-> directions]

RECURSIVE ToTopLoop(_, _)
\* The while loop of Zipper.to_top: directions are consed on from inner to outer.
ToTopLoop(curr_zipper, directions) ==
    IF curr_zipper.parents # <<>>
    THEN LET up == MoveUpWithDirection(curr_zipper).val
         IN ToTopLoop(up.zipper, <<up.direction>> \o directions)
    ELSE [expr |-> curr_zipper.expr, directions |-> directions]

\* Zipper.to_top
ToTop(z) == ToTopLoop(z, <<>>)

----------------------------------------------------------------------------
(* actions.py: the axioms *)

\* _duals
Duals(op) == IF op = "&" THEN "|" ELSE "&"

\* Mutant: an expression that is no binary operation is returned as it is.
ApplyCommutativityLenient(expr) ==
    IF IsBinary(expr)
    THEN Ok(BinaryExpr(expr.right, expr.op, expr.left))
    ELSE Ok(expr)

\* apply_commutativity
ApplyCommutativity(expr) ==
    IF IsBinary(expr)
    THEN Ok(BinaryExpr(expr.right, expr.op, expr.left))
    ELSE Raise("ActionError")

\* Mutant: the identity elements of | and & are exchanged.
ApplyIdentityExchanged(expr) ==
    IF /\ IsBinary(expr)
       /\ \/ expr.op = "|" /\ expr.right = T
          \/ expr.op = "&" /\ expr.right = F
    THEN Ok(expr.left)
    ELSE Raise("ActionError")

\* apply_identity
ApplyIdentity(expr) ==
    IF /\ IsBinary(expr)
       /\ \/ expr.op = "|" /\ expr.right = F
          \/ expr.op = "&" /\ expr.right = T
    THEN Ok(expr.left)
    ELSE Raise("ActionError")

\* introduce_or_false
IntroduceOrFalse(expr) == Ok(BinaryExpr(expr, "|", F))

\* introduce_and_true
IntroduceAndTrue(expr) == Ok(BinaryExpr(expr, "&", T))

\* Mutant: the two operators are not required to be duals.
DistributeAnyOperators(expr) ==
    IF /\ IsBinary(expr)
       /\ IsBinary(expr.right)
    THEN LET a == expr.left
             op0 == expr.op
             b == expr.right.left
             op1 == expr.right.op
             c == expr.right.right
         IN Ok(BinaryExpr(BinaryExpr(a, op0, b), op1, BinaryExpr(a, op0, c)))
    ELSE Raise("ActionError")

\* Mutant: the second inner operation repeats b where a belongs.
DistributeRepeatingB(expr) ==
    IF /\ IsBinary(expr)
       /\ IsBinary(expr.right)
       /\ Duals(expr.op) = expr.right.op
    THEN LET a == expr.left
             op0 == expr.op
             b == expr.right.left
             op1 == expr.right.op
             c == expr.right.right
         IN Ok(BinaryExpr(BinaryExpr(a, op0, b), op1, BinaryExpr(b, op0, c)))
    ELSE Raise("ActionError")

\* distribute
Distribute(expr) ==
    IF /\ IsBinary(expr)
       /\ IsBinary(expr.right)
       /\ Duals(expr.op) = expr.right.op
    THEN LET a == expr.left
             op0 == expr.op
             b == expr.right.left
             op1 == expr.right.op
             c == expr.right.right
         IN Ok(BinaryExpr(BinaryExpr(a, op0, b), op1, BinaryExpr(a, op0, c)))
    ELSE Raise("ActionError")

\* Mutant: the left operands are compared by their outermost shape only.
FactorShallow(expr) ==
    IF /\ IsBinary(expr)
       /\ IsBinary(expr.left)
       /\ IsBinary(expr.right)
       /\ expr.left.left.t = expr.right.left.t
       /\ expr.left.op = expr.right.op
       /\ Duals(expr.left.op) = expr.op
    THEN LET a == expr.left.left
             op0 == expr.left.op
             b == expr.left.right
             op1 == expr.op
             c == expr.right.right
         IN Ok(BinaryExpr(a, op0, BinaryExpr(b, op1, c)))
    ELSE Raise("ActionError")

\* Mutant: b and c change places in the result.
FactorSwappingOperands(expr) ==
    IF /\ IsBinary(expr)
       /\ IsBinary(expr.left)
       /\ IsBinary(expr.right)
       /\ expr.left.left = expr.right.left
       /\ expr.left.op = expr.right.op
       /\ Duals(expr.left.op) = expr.op
    THEN LET a == expr.left.left
             op0 == expr.left.op
             b == expr.left.right
             op1 == expr.op
             c == expr.right.right
         IN Ok(BinaryExpr(a, op0, BinaryExpr(c, op1, b)))
    ELSE Raise("ActionError")

\* Mutant: the left operands of the two inner operations are not compared.
FactorUncompared(expr) ==
    IF /\ IsBinary(expr)
       /\ IsBinary(expr.left)
       /\ IsBinary(expr.right)
       /\ expr.left.op = expr.right.op
       /\ Duals(expr.left.op) = expr.op
    THEN LET a == expr.left.left
             op0 == expr.left.op
             b == expr.left.right
             op1 == expr.op
             c == expr.right.right
         IN Ok(BinaryExpr(a, op0, BinaryExpr(b, op1, c)))
    ELSE Raise("ActionError")

\* factor
Factor(expr) ==
    IF /\ IsBinary(expr)
       /\ IsBinary(expr.left)
       /\ IsBinary(expr.right)
       /\ expr.left.left = expr.right.left
       /\ expr.left.op = expr.right.op
       /\ Duals(expr.left.op) = expr.op
    THEN LET a == expr.left.left
             op0 == expr.left.op
             b == expr.left.right
             op1 == expr.op
             c == expr.right.right
         IN Ok(BinaryExpr(a, op0, BinaryExpr(b, op1, c)))
    ELSE Raise("ActionError")

\* Mutant: the operand and the negated operand are not compared.
ApplyComplementsUncompared(expr) ==
    IF /\ IsBinary(expr)
       /\ IsUnary(expr.right)
       /\ expr.right.op = "!"
    THEN IF expr.op = "|" THEN Ok(T)
         ELSE IF expr.op = "&" THEN Ok(F)
         ELSE Raise("ActionError")
    ELSE Raise("ActionError")

\* apply_complements
ApplyComplements(expr) ==
    IF /\ IsBinary(expr)
       /\ IsUnary(expr.right)
       /\ expr.right.op = "!"
       /\ expr.left = expr.right.arg
    THEN IF expr.op = "|" THEN Ok(T)
         ELSE IF expr.op = "&" THEN Ok(F)
         ELSE Raise("ActionError")
    ELSE Raise("ActionError")

\* Mutant: the operators of the two expansions are exchanged.
ExpandIntoComplementsExchanged(expr, a) ==
    IF expr = T THEN Ok(BinaryExpr(a, "&", UnaryExpr("!", a)))
    ELSE IF expr = F THEN Ok(BinaryExpr(a, "|", UnaryExpr("!", a)))
    ELSE Raise("ActionError")

\* expand_into_complements
ExpandIntoComplements(expr, a) ==
    IF expr = T THEN Ok(BinaryExpr(a, "|", UnaryExpr("!", a)))
    ELSE IF expr = F THEN Ok(BinaryExpr(a, "&", UnaryExpr("!", a)))
    ELSE Raise("ActionError")

----------------------------------------------------------------------------
(* Callables: an Expr -> Expr function is a record naming the function and *)
(* carrying what its closure captured.                                      *)

\* lambda _: a  (the action of r!)
ConstAction(a) == [fn |-> "const", a |-> a]
\* lambda expr: actions.expand_into_complements(expr, a)  (the action of x)
ExpandAction(a) == [fn |-> "expand_into_complements", a |-> a]
\* a function of actions.py taking the expression alone
AxiomAction(fn) == [fn |-> fn]

\* action(expr)
Call(action, expr) ==
    CASE action.fn = "const" -> Ok(action.a)
      [] action.fn = "apply_commutativity" -> ApplyCommutativity(expr)
      [] action.fn = "apply_identity" -> ApplyIdentity(expr)
      [] action.fn = "introduce_or_false" -> IntroduceOrFalse(expr)
      [] action.fn = "introduce_and_true" -> IntroduceAndTrue(expr)
      [] action.fn = "distribute" -> Distribute(expr)
      [] action.fn = "factor" -> Factor(expr)
      [] action.fn = "apply_complements" -> ApplyComplements(expr)
      [] action.fn = "expand_into_complements" -> ExpandIntoComplements(expr, action.a)

\* Mutant: the transformed expression is returned as a zipper at the top.
TransformDroppingParents(z, action) ==
    LET applied == Call(action, z.expr)
    IN IF applied.ok THEN Ok(Zipper(applied.val, <<>>)) ELSE applied

\* Zipper.transform: an error the action raises propagates.
Transform(z, action) ==
    LET applied == Call(action, z.expr)
    IN IF applied.ok THEN Ok(Zipper(applied.val, z.parents)) ELSE applied

----------------------------------------------------------------------------
(* source.py: tokenize and parse.  A string is a sequence of characters; a  *)
(* token is 'F', 'T' or a Variable (the Expr values themselves) or one of   *)
(* the symbols ! & | ( ).                                                   *)

Symbol(ch) == [t |-> "sym", ch |-> ch]

\* ParseError(message); `cite` is what the message quotes.
ParseError(msg, cite) == [ok |-> FALSE, err |-> "ParseError", msg |-> msg, cite |-> cite]

\* _bracket_pairs
BracketPairs == {<<"(", ")">>, <<"[", "]">>, <<"{", "}">>}
\* _opening_brackets
OpeningBrackets == <<"(", "[", "{">>
\* _closing_brackets
ClosingBrackets == <<")", "]", "}">>

SeqRange(seq) == {seq[i] : i \in 1..Len(seq)}

\* _is_simple_token
IsSimpleToken(char) == char \in {"F", "T", "!", "&", "|"}

\* str.islower() of one character (the ASCII letters).
Lowercase ==
    {"a", "b", "c", "d", "e", "f", "g", "h", "i", "j", "k", "l", "m",
     "n", "o", "p", "q", "r", "s", "t", "u", "v", "w", "x", "y", "z"}
IsLower(char) == char \in Lowercase

\* str.isspace() of one character.
IsSpace(char) == char \in {" ", "\t"}

\* The token a simple character is appended as.
SimpleToken(char) == IF char \in Booleans THEN Boolean(char) ELSE Symbol(char)

RECURSIVE TokenizeLoopUnpaired(_, _, _, _)
\* Mutant: a closing bracket closes whatever bracket was opened last.
TokenizeLoopUnpaired(expr_string, i, stream, unclosed_opening_brackets) ==
    IF i > Len(expr_string)
    THEN IF unclosed_opening_brackets # <<>>
         THEN ParseError("unmatched bracket",
                         <<unclosed_opening_brackets[Len(unclosed_opening_brackets)]>>)
         ELSE Ok(stream)
    ELSE LET char == expr_string[i]
         IN IF IsSimpleToken(char)
            THEN TokenizeLoopUnpaired(expr_string, i + 1, Append(stream, SimpleToken(char)),
                              unclosed_opening_brackets)
            ELSE IF IsLower(char)
            THEN TokenizeLoopUnpaired(expr_string, i + 1, Append(stream, Variable(char)),
                              unclosed_opening_brackets)
            ELSE IF char \in SeqRange(OpeningBrackets)
            THEN TokenizeLoopUnpaired(expr_string, i + 1, Append(stream, Symbol("(")),
                              Append(unclosed_opening_brackets, char))
            ELSE IF char \in SeqRange(ClosingBrackets)
            THEN IF unclosed_opening_brackets = <<>>
                 THEN ParseError("unmatched bracket", <<char>>)
                 ELSE LET n == Len(unclosed_opening_brackets)
                          opening_bracket == unclosed_opening_brackets[n]
                          popped == SubSeq(unclosed_opening_brackets, 1, n - 1)
                      IN IF <<opening_bracket, char>> \in BracketPairs \/ TRUE
                         THEN TokenizeLoopUnpaired(expr_string, i + 1, Append(stream, Symbol(")")),
                                           popped)
                         ELSE ParseError("bad bracket match", <<opening_bracket, char>>)
            ELSE IF ~IsSpace(char)
            THEN ParseError("unrecognized character", <<char>>)
            ELSE TokenizeLoopUnpaired(expr_string, i + 1, stream, unclosed_opening_brackets)

RECURSIVE TokenizeLoopCitingFirst(_, _, _, _)
\* Mutant: at the end of the input the bracket opened first is reported.
TokenizeLoopCitingFirst(expr_string, i, stream, unclosed_opening_brackets) ==
    IF i > Len(expr_string)
    THEN IF unclosed_opening_brackets # <<>>
         THEN ParseError("unmatched bracket",
                         <<unclosed_opening_brackets[1]>>)
         ELSE Ok(stream)
    ELSE LET char == expr_string[i]
         IN IF IsSimpleToken(char)
            THEN TokenizeLoopCitingFirst(expr_string, i + 1, Append(stream, SimpleToken(char)),
                              unclosed_opening_brackets)
            ELSE IF IsLower(char)
            THEN TokenizeLoopCitingFirst(expr_string, i + 1, Append(stream, Variable(char)),
                              unclosed_opening_brackets)
            ELSE IF char \in SeqRange(OpeningBrackets)
            THEN TokenizeLoopCitingFirst(expr_string, i + 1, Append(stream, Symbol("(")),
                              Append(unclosed_opening_brackets, char))
            ELSE IF char \in SeqRange(ClosingBrackets)
            THEN IF unclosed_opening_brackets = <<>>
                 THEN ParseError("unmatched bracket", <<char>>)
                 ELSE LET n == Len(unclosed_opening_brackets)
                          opening_bracket == unclosed_opening_brackets[n]
                          popped == SubSeq(unclosed_opening_brackets, 1, n - 1)
                      IN IF <<opening_bracket, char>> \in BracketPairs
                         THEN TokenizeLoopCitingFirst(expr_string, i + 1, Append(stream, Symbol(")")),
                                           popped)
                         ELSE ParseError("bad bracket match", <<opening_bracket, char>>)
            ELSE IF ~IsSpace(char)
            THEN ParseError("unrecognized character", <<char>>)
            ELSE TokenizeLoopCitingFirst(expr_string, i + 1, stream, unclosed_opening_brackets)

RECURSIVE TokenizeLoopIgnoringUnclosed(_, _, _, _)
\* Mutant: brackets left open at the end of the input are not reported.
TokenizeLoopIgnoringUnclosed(expr_string, i, stream, unclosed_opening_brackets) ==
    IF i > Len(expr_string)
    THEN IF unclosed_opening_brackets # <<>> /\ FALSE
         THEN ParseError("unmatched bracket",
                         <<unclosed_opening_brackets[Len(unclosed_opening_brackets)]>>)
         ELSE Ok(stream)
    ELSE LET char == expr_string[i]
         IN IF IsSimpleToken(char)
            THEN TokenizeLoopIgnoringUnclosed(expr_string, i + 1, Append(stream, SimpleToken(char)),
                              unclosed_opening_brackets)
            ELSE IF IsLower(char)
            THEN TokenizeLoopIgnoringUnclosed(expr_string, i + 1, Append(stream, Variable(char)),
                              unclosed_opening_brackets)
            ELSE IF char \in SeqRange(OpeningBrackets)
            THEN TokenizeLoopIgnoringUnclosed(expr_string, i + 1, Append(stream, Symbol("(")),
                              Append(unclosed_opening_brackets, char))
            ELSE IF char \in SeqRange(ClosingBrackets)
            THEN IF unclosed_opening_brackets = <<>>
                 THEN ParseError("unmatched bracket", <<char>>)
                 ELSE LET n == Len(unclosed_opening_brackets)
                          opening_bracket == unclosed_opening_brackets[n]
                          popped == SubSeq(unclosed_opening_brackets, 1, n - 1)
                      IN IF <<opening_bracket, char>> \in BracketPairs
                         THEN TokenizeLoopIgnoringUnclosed(expr_string, i + 1, Append(stream, Symbol(")")),
                                           popped)
                         ELSE ParseError("bad bracket match", <<opening_bracket, char>>)
            ELSE IF ~IsSpace(char)
            THEN ParseError("unrecognized character", <<char>>)
            ELSE TokenizeLoopIgnoringUnclosed(expr_string, i + 1, stream, unclosed_opening_brackets)

RECURSIVE TokenizeLoop(_, _, _, _)
\* The for loop of tokenize from character i on, and the check after it.
TokenizeLoop(expr_string, i, stream, unclosed_opening_brackets) ==
    IF i > Len(expr_string)
    THEN IF unclosed_opening_brackets # <<>>
         THEN ParseError("unmatched bracket",
                         <<unclosed_opening_brackets[Len(unclosed_opening_brackets)]>>)
         ELSE Ok(stream)
    ELSE LET char == expr_string[i]
         IN IF IsSimpleToken(char)
            THEN TokenizeLoop(expr_string, i + 1, Append(stream, SimpleToken(char)),
                              unclosed_opening_brackets)
            ELSE IF IsLower(char)
            THEN TokenizeLoop(expr_string, i + 1, Append(stream, Variable(char)),
                              unclosed_opening_brackets)
            ELSE IF char \in SeqRange(OpeningBrackets)
            THEN TokenizeLoop(expr_string, i + 1, Append(stream, Symbol("(")),
                              Append(unclosed_opening_brackets, char))
            ELSE IF char \in SeqRange(ClosingBrackets)
            THEN IF unclosed_opening_brackets = <<>>
                 THEN ParseError("unmatched bracket", <<char>>)
                 ELSE LET n == Len(unclosed_opening_brackets)
                          opening_bracket == unclosed_opening_brackets[n]
                          popped == SubSeq(unclosed_opening_brackets, 1, n - 1)
                      IN IF <<opening_bracket, char>> \in BracketPairs
                         THEN TokenizeLoop(expr_string, i + 1, Append(stream, Symbol(")")),
                                           popped)
                         ELSE ParseError("bad bracket match", <<opening_bracket, char>>)
            ELSE IF ~IsSpace(char)
            THEN ParseError("unrecognized character", <<char>>)
            ELSE TokenizeLoop(expr_string, i + 1, stream, unclosed_opening_brackets)

\* tokenize
Tokenize(expr_string) == TokenizeLoop(expr_string, 1, <<>>, <<>>)

\* _StackExpr
StackExpr(expr) == [stackexpr |-> expr]
IsStackExpr(element) == "stackexpr" \in DOMAIN element
IsOperator(element, ch) == ~IsStackExpr(element) /\ element = Symbol(ch)

\* Mutant: brackets around a single expression are accepted and dropped.
ReduceAcceptingSingle(within_brackets) ==
    IF /\ Len(within_brackets) = 2
       /\ IsOperator(within_brackets[1], "!")
       /\ IsStackExpr(within_brackets[2])
    THEN Ok(UnaryExpr("!", within_brackets[2].stackexpr))
    ELSE IF /\ Len(within_brackets) = 3
            /\ IsStackExpr(within_brackets[1])
            /\ IsOperator(within_brackets[2], "&")
            /\ IsStackExpr(within_brackets[3])
    THEN Ok(BinaryExpr(within_brackets[1].stackexpr, "&", within_brackets[3].stackexpr))
    ELSE IF /\ Len(within_brackets) = 3
            /\ IsStackExpr(within_brackets[1])
            /\ IsOperator(within_brackets[2], "|")
            /\ IsStackExpr(within_brackets[3])
    THEN Ok(BinaryExpr(within_brackets[1].stackexpr, "|", within_brackets[3].stackexpr))
    ELSE IF Len(within_brackets) = 1 /\ IsStackExpr(within_brackets[1])
    THEN Ok(within_brackets[1].stackexpr)
    ELSE ParseError("invalid syntax", <<>>)

\* The match on within_brackets in parse: the reduced expression, or ParseError.
Reduce(within_brackets) ==
    IF /\ Len(within_brackets) = 2
       /\ IsOperator(within_brackets[1], "!")
       /\ IsStackExpr(within_brackets[2])
    THEN Ok(UnaryExpr("!", within_brackets[2].stackexpr))
    ELSE IF /\ Len(within_brackets) = 3
            /\ IsStackExpr(within_brackets[1])
            /\ IsOperator(within_brackets[2], "&")
            /\ IsStackExpr(within_brackets[3])
    THEN Ok(BinaryExpr(within_brackets[1].stackexpr, "&", within_brackets[3].stackexpr))
    ELSE IF /\ Len(within_brackets) = 3
            /\ IsStackExpr(within_brackets[1])
            /\ IsOperator(within_brackets[2], "|")
            /\ IsStackExpr(within_brackets[3])
    THEN Ok(BinaryExpr(within_brackets[1].stackexpr, "|", within_brackets[3].stackexpr))
    ELSE ParseError("invalid syntax", <<>>)

RECURSIVE ParseLoopGuardingPop(_, _, _, _)
\* Mutant: a closing bracket with no opening bracket is reported as invalid syntax.
ParseLoopGuardingPop(stream, i, stack, opening_bracket_boundaries) ==
    IF i > Len(stream)
    THEN IF opening_bracket_boundaries # <<>>
         THEN Raise("AssertionError")
         ELSE IF Len(stack) = 1 /\ IsStackExpr(stack[1])
         THEN Ok(stack[1].stackexpr)
         ELSE ParseError("invalid syntax", <<>>)
    ELSE LET token == stream[i]
         IN IF token.t \in {"bool", "var"}
            THEN ParseLoopGuardingPop(stream, i + 1, Append(stack, StackExpr(token)),
                           opening_bracket_boundaries)
            ELSE IF token.ch \in {"!", "&", "|"}
            THEN ParseLoopGuardingPop(stream, i + 1, Append(stack, token), opening_bracket_boundaries)
            ELSE IF token.ch = "("
            THEN ParseLoopGuardingPop(stream, i + 1, stack,
                           Append(opening_bracket_boundaries, Len(stack)))
            ELSE \* ')'
                 IF opening_bracket_boundaries = <<>>
                 THEN ParseError("invalid syntax", <<>>)
                 ELSE LET n == Len(opening_bracket_boundaries)
                          boundary == opening_bracket_boundaries[n]
                          within_brackets == SubSeq(stack, boundary + 1, Len(stack))
                          reduced == Reduce(within_brackets)
                      IN IF reduced.ok
                         THEN ParseLoopGuardingPop(stream, i + 1,
                                        Append(SubSeq(stack, 1, boundary),
                                               StackExpr(reduced.val)),
                                        SubSeq(opening_bracket_boundaries, 1, n - 1))
                         ELSE reduced

RECURSIVE ParseLoop(_, _, _, _)
\* The for loop of parse from token i on, the assertion and the final match.
ParseLoop(stream, i, stack, opening_bracket_boundaries) ==
    IF i > Len(stream)
    THEN IF opening_bracket_boundaries # <<>>
         THEN Raise("AssertionError")
         ELSE IF Len(stack) = 1 /\ IsStackExpr(stack[1])
         THEN Ok(stack[1].stackexpr)
         ELSE ParseError("invalid syntax", <<>>)
    ELSE LET token == stream[i]
         IN IF token.t \in {"bool", "var"}
            THEN ParseLoop(stream, i + 1, Append(stack, StackExpr(token)),
                           opening_bracket_boundaries)
            ELSE IF token.ch \in {"!", "&", "|"}
            THEN ParseLoop(stream, i + 1, Append(stack, token), opening_bracket_boundaries)
            ELSE IF token.ch = "("
            THEN ParseLoop(stream, i + 1, stack,
                           Append(opening_bracket_boundaries, Len(stack)))
            ELSE \* ')'
                 IF opening_bracket_boundaries = <<>>
                 THEN Raise("IndexError")
                 ELSE LET n == Len(opening_bracket_boundaries)
                          boundary == opening_bracket_boundaries[n]
                          within_brackets == SubSeq(stack, boundary + 1, Len(stack))
                          reduced == Reduce(within_brackets)
                      IN IF reduced.ok
                         THEN ParseLoop(stream, i + 1,
                                        Append(SubSeq(stack, 1, boundary),
                                               StackExpr(reduced.val)),
                                        SubSeq(opening_bracket_boundaries, 1, n - 1))
                         ELSE reduced

\* parse
Parse(stream) == ParseLoop(stream, 1, <<>>, <<>>)

----------------------------------------------------------------------------
(* source.py: unparse and untokenize.  A _FocusPath is a ConsList of        *)
(* Directions or the literal 'unfocused'.                                   *)

\* FocusToken(token, under_focus)
FocusToken(token, under_focus) == [token |-> token, under_focus |-> under_focus]

\* A _FocusPath that is a ConsList[Direction].
FocusPath(directions) == [directions |-> directions]
\* The _FocusPath 'unfocused'.
Unfocused == [unfocused |-> TRUE]
IsUnfocused(focus_path) == "unfocused" \in DOMAIN focus_path

\* Mutant: the direction taken is not compared with the next one of the path.
MoveAlongPathAnyDirection(focus_path, direction) ==
    IF IsUnfocused(focus_path) THEN Unfocused
    ELSE IF focus_path.directions = <<>> THEN FocusPath(<<>>)
    ELSE FocusPath(Tail(focus_path.directions))

\* _move_along_path
MoveAlongPath(focus_path, direction) ==
    IF IsUnfocused(focus_path) THEN Unfocused
    ELSE IF focus_path.directions = <<>> THEN FocusPath(<<>>)
    ELSE IF Head(focus_path.directions) = direction
    THEN FocusPath(Tail(focus_path.directions))
    ELSE Unfocused

RECURSIVE UnparseWithFocusPath(_, _)
\* _unparse_with_focus_path
UnparseWithFocusPath(expr, focus_path) ==
    LET under_focus == ~IsUnfocused(focus_path) /\ focus_path.directions = <<>>
    IN IF IsValue(expr)
       THEN <<FocusToken(expr, under_focus)>>
       ELSE IF IsUnary(expr)
       THEN <<FocusToken(Symbol("("), under_focus),
              FocusToken(Symbol(expr.op), under_focus)>>
            \o UnparseWithFocusPath(expr.arg, MoveAlongPath(focus_path, ARG))
            \o <<FocusToken(Symbol(")"), under_focus)>>
       ELSE <<FocusToken(Symbol("("), under_focus)>>
            \o UnparseWithFocusPath(expr.left, MoveAlongPath(focus_path, LEFT))
            \o <<FocusToken(Symbol(expr.op), under_focus)>>
            \o UnparseWithFocusPath(expr.right, MoveAlongPath(focus_path, RIGHT))
            \o <<FocusToken(Symbol(")"), under_focus)>>

\* Mutant: only the expression under focus is written.
UnparseBelowFocus(z) ==
    UnparseWithFocusPath(z.expr, FocusPath(<<>>))

\* unparse
Unparse(z) ==
    LET top == ToTop(z)
    IN UnparseWithFocusPath(top.expr, FocusPath(top.directions))

\* Mutant: the focus character is written once whatever the token's length.
RepeatOnce(char, n) == <<char>>

\* token_focus_char * len(token_string)
Repeat(char, n) == [i \in 1..n |-> char]

\* Mutant: a closing bracket is chosen before the depth is decreased.
TokenStringBeforeDecrease(token, bracket_depth) ==
    IF token.t = "bool" THEN <<token.val>>
    ELSE IF token.t = "var" THEN <<token.name>>
    ELSE IF token.ch = "!" THEN <<"!">>
    ELSE IF token.ch \in {"&", "|"} THEN <<" ", token.ch, " ">>
    ELSE IF token.ch = "(" THEN <<OpeningBrackets[(bracket_depth % 3) + 1]>>
    ELSE <<ClosingBrackets[(bracket_depth % 3) + 1]>>

\* The match on focus_token.token in untokenize: the token's string.
TokenString(token, bracket_depth) ==
    IF token.t = "bool" THEN <<token.val>>
    ELSE IF token.t = "var" THEN <<token.name>>
    ELSE IF token.ch = "!" THEN <<"!">>
    ELSE IF token.ch \in {"&", "|"} THEN <<" ", token.ch, " ">>
    ELSE IF token.ch = "(" THEN <<OpeningBrackets[(bracket_depth % 3) + 1]>>
    ELSE <<ClosingBrackets[((bracket_depth - 1) % 3) + 1]>>

\* Mutant: a closing bracket leaves the depth as it is.
DepthAfterKeepingOnClose(token, bracket_depth) ==
    IF token.t = "sym" /\ token.ch = "("  THEN bracket_depth + 1
    ELSE bracket_depth

\* bracket_depth after the token.
DepthAfter(token, bracket_depth) ==
    IF token.t = "sym" /\ token.ch = "("  THEN bracket_depth + 1
    ELSE IF token.t = "sym" /\ token.ch = ")" THEN bracket_depth - 1
    ELSE bracket_depth

RECURSIVE UntokenizeLoop(_, _, _, _, _)
\* The for loop of untokenize from token i on, and the two joins.
UntokenizeLoop(stream, i, bracket_depth, expr_string, focus_string) ==
    IF i > Len(stream)
    THEN <<expr_string, focus_string>>
    ELSE LET focus_token == stream[i]
             token_string == TokenString(focus_token.token, bracket_depth)
             token_focus_char == IF focus_token.under_focus THEN "^" ELSE " "
         IN UntokenizeLoop(stream, i + 1, DepthAfter(focus_token.token, bracket_depth),
                           expr_string \o token_string,
                           focus_string \o Repeat(token_focus_char, Len(token_string)))

\* untokenize
Untokenize(stream) == UntokenizeLoop(stream, 1, 0, <<>>, <<>>)

----------------------------------------------------------------------------
(* Meaning of an expression, and bounded sets of expressions.               *)

VarNames == {"a", "b"}
Assignments == [VarNames -> BOOLEAN]

RECURSIVE Eval(_, _)
\* Truth value of e under an assignment of truth values to the variables:
\* F/T, !, & and | as docs of actions.py and the help text read them.
Eval(e, asg) ==
    CASE e.t = "bool" -> e.val = "T"
      [] e.t = "var" -> asg[e.name]
      [] e.t = "not" -> ~Eval(e.arg, asg)
      [] e.t = "bin" -> IF e.op = "&"
                        THEN Eval(e.left, asg) /\ Eval(e.right, asg)
                        ELSE Eval(e.left, asg) \/ Eval(e.right, asg)

Equivalent(e1, e2) == \A asg \in Assignments : Eval(e1, asg) = Eval(e2, asg)

RECURSIVE ExprsOfSize(_, _)
\* The expressions with exactly n nodes whose values are drawn from `values`.
ExprsOfSize(n, values) ==
    IF n = 1 THEN values
    ELSE {UnaryExpr("!", e) : e \in ExprsOfSize(n - 1, values)}
         \cup UNION {{BinaryExpr(l, op, r) :
                         l \in ExprsOfSize(i, values),
                         op \in BinaryOps,
                         r \in ExprsOfSize(n - 1 - i, values)} : i \in 1..(n - 2)}

ExprsUpTo(n, values) == UNION {ExprsOfSize(k, values) : k \in 1..n}

----------------------------------------------------------------------------
(* SpecAxioms: the functions of actions.py applied to bounded inputs.       *)

AxiomValues == {F, T, Variable("a"), Variable("b")}

\* Operands that are operations themselves, alike in shape and different.
AxiomOperands ==
    {UnaryExpr("!", Variable("a")), UnaryExpr("!", Variable("b")),
     BinaryExpr(Variable("a"), "&", Variable("b")),
     BinaryExpr(Variable("b"), "&", Variable("a"))}

\* Inputs: every expression up to MaxAxiomSize, every expression of the shape
\* ((w op x) op (y op z)) over the values (the shape factor reads), and the
\* shapes factor and apply_complements read with operations for the operands
\* they compare.
AxiomInputs ==
    ExprsUpTo(MaxAxiomSize, AxiomValues)
    \cup {BinaryExpr(BinaryExpr(w, op0, x), op1, BinaryExpr(y, op2, z)) :
             w \in AxiomValues, x \in AxiomValues, y \in AxiomValues, z \in AxiomValues,
             op0 \in BinaryOps, op1 \in BinaryOps, op2 \in BinaryOps}
    \cup {BinaryExpr(BinaryExpr(p, op0, x), op1, BinaryExpr(q, op2, z)) :
             p \in AxiomOperands, q \in AxiomOperands,
             x \in {Variable("a"), T}, z \in {Variable("b"), T},
             op0 \in BinaryOps, op1 \in BinaryOps, op2 \in BinaryOps}
    \cup {BinaryExpr(p, op, UnaryExpr("!", q)) :
             p \in AxiomOperands, q \in AxiomOperands, op \in BinaryOps}

\* Arguments a given to expand_into_complements.
AxiomWitnesses ==
    AxiomValues \cup {UnaryExpr("!", Variable("a")),
                      BinaryExpr(Variable("a"), "&", Variable("b"))}

AxiomNames ==
    {"apply_commutativity", "apply_identity", "introduce_or_false", "introduce_and_true",
     "distribute", "factor", "apply_complements"}

Idle == Zipper(F, <<>>)
NoExpr == F
NoInput == [none |-> TRUE]

InitAxioms ==
    /\ axIn \in AxiomInputs
    /\ axName = "none"
    /\ axArg = NoExpr
    /\ axOut = Raise("none")
    /\ zipper = Idle /\ start = Idle
    /\ lastCmd = "" /\ lastErr = "none" /\ running = FALSE
    /\ srcFn = "none" /\ srcIn = NoInput /\ srcOut = Raise("none")

\* One call fn(axIn) of a one-argument axiom function.
ApplyAxiom ==
    \E fn \in AxiomNames :
        /\ axName' = fn
        /\ axArg' = NoExpr
        /\ axOut' = Call(AxiomAction(fn), axIn)
        /\ UNCHANGED <<axIn, zipper, start, lastCmd, lastErr, running, srcFn, srcIn, srcOut>>

\* One call expand_into_complements(axIn, a).
ApplyExpand ==
    \E a \in AxiomWitnesses :
        /\ axName' = "expand_into_complements"
        /\ axArg' = a
        /\ axOut' = Call(ExpandAction(a), axIn)
        /\ UNCHANGED <<axIn, zipper, start, lastCmd, lastErr, running, srcFn, srcIn, srcOut>>

NextAxioms == ApplyAxiom \/ ApplyExpand

SpecAxioms == InitAxioms /\ [][NextAxioms]_vars

----------------------------------------------------------------------------
(* SpecNav: the navigation methods of Zipper called on bounded zippers.     *)

NavValues == {F, T, Variable("a")}

RECURSIVE Below(_)
\* z and every zipper the downward moves reach from it.
Below(z) ==
    {z}
    \cup (IF MoveArg(z).ok THEN Below(MoveArg(z).val) ELSE {})
    \cup (IF MoveLeft(z).ok THEN Below(MoveLeft(z).val) ELSE {})
    \cup (IF MoveRight(z).ok THEN Below(MoveRight(z).val) ELSE {})

\* Every focus position of every expression up to MaxNavSize.
NavZippers == UNION {Below(Zipper(e, <<>>)) : e \in ExprsUpTo(MaxNavSize, NavValues)}

InitNav ==
    /\ start \in NavZippers
    /\ zipper = start
    /\ lastCmd = "" /\ lastErr = "none" /\ running = FALSE
    /\ axName = "none" /\ axIn = NoExpr /\ axArg = NoExpr /\ axOut = Raise("none")
    /\ srcFn = "none" /\ srcIn = NoInput /\ srcOut = Raise("none")

\* The caller's variable after `zipper = method(zipper)`: rebound on return,
\* left alone when the method raised.
CallMethod(name, result) ==
    /\ lastCmd' = name
    /\ IF result.ok
       THEN zipper' = result.val /\ lastErr' = "none"
       ELSE zipper' = zipper /\ lastErr' = result.err
    /\ UNCHANGED <<start, running, axName, axIn, axArg, axOut, srcFn, srcIn, srcOut>>

NavUp == CallMethod("^", MoveUp(zipper))
NavArg == CallMethod(".", MoveArg(zipper))
NavLeft == CallMethod("<", MoveLeft(zipper))
NavRight == CallMethod(">", MoveRight(zipper))

NextNav == NavUp \/ NavArg \/ NavLeft \/ NavRight

SpecNav == InitNav /\ [][NextNav]_vars

----------------------------------------------------------------------------
(* Navigation claims, checked under SpecNav.                                *)

DownwardMoves == {".", "<", ">"}
Moves == {"^"} \cup DownwardMoves

\* C1: for every zipper z and every move m of move_arg, move_left, move_right
\* that succeeds on z, z.m().move_up() equals z (same focus, same ancestors).
C1_DownThenUpIsIdentity ==
    [][(lastCmd' \in DownwardMoves /\ lastErr' = "none")
           => MoveUp(zipper') = Ok(zipper)]_vars

\* move_right has just succeeded on a binary operation that itself has an
\* ancestor, so moving up must rebuild the operation and keep the tail.
C1_Witness ==
    /\ lastCmd = ">" /\ lastErr = "none"
    /\ Len(zipper.parents) >= 2
    /\ zipper.parents[1].left # zipper.expr

\* The move for one Direction of a path.
MoveAlong(z, direction) ==
    CASE direction = ARG -> MoveArg(z)
      [] direction = LEFT -> MoveLeft(z)
      [] direction = RIGHT -> MoveRight(z)

RECURSIVE Replay(_, _)
\* Apply the moves of `path` in order from z; the first failure is the result.
Replay(z, path) ==
    IF path = <<>> THEN Ok(z)
    ELSE LET r == MoveAlong(z, Head(path))
         IN IF r.ok THEN Replay(r.val, Tail(path)) ELSE r

\* C2: replaying the path of to_top from Zipper(top, no ancestors) succeeds at
\* every move and ends in a zipper with the focus and the ancestors of z.
C2_ReplayOfToTopRebuildsZipper ==
    LET top == ToTop(zipper)
    IN Replay(Zipper(top.expr, <<>>), top.directions) = Ok(zipper)

\* A zipper three levels down, reached by a move, whose path mixes directions.
C2_Witness ==
    /\ lastErr = "none" /\ lastCmd \in DownwardMoves
    /\ Len(zipper.parents) >= 3
    /\ Cardinality({zipper.parents[i].hole : i \in 1..Len(zipper.parents)}) >= 2

\* C3: after any sequence of successful moves from a zipper, to_top returns
\* the top-level expression it returned at the start.
C3_NavigationKeepsTopExpression ==
    ToTop(zipper).expr = ToTop(start).expr

\* The focus started in a left operand and, after moves up and back down, is
\* now in the right operand at the same depth.
C3_Witness ==
    /\ lastCmd = ">" /\ lastErr = "none"
    /\ start.parents # <<>>
    /\ Head(start.parents).hole = "left"
    /\ Len(zipper.parents) = Len(start.parents)
    /\ Len(zipper.parents) >= 2
    /\ zipper # start

\* C7: each move raises NavigationError exactly when its shape precondition
\* fails: move_up iff there are no ancestors, move_arg iff the focus is not a
\* Not, move_left and move_right iff the focus is not a binary operation.
C7_MovesFailExactlyOffShape ==
    /\ MoveUp(zipper).ok <=> zipper.parents # <<>>
    /\ MoveArg(zipper).ok <=> IsUnary(zipper.expr)
    /\ MoveLeft(zipper).ok <=> IsBinary(zipper.expr)
    /\ MoveRight(zipper).ok <=> IsBinary(zipper.expr)
    /\ \A r \in {MoveUp(zipper), MoveArg(zipper), MoveLeft(zipper), MoveRight(zipper)} :
           ~r.ok => r.err = "NavigationError"
    /\ IsValue(zipper.expr) =>
           ~MoveArg(zipper).ok /\ ~MoveLeft(zipper).ok /\ ~MoveRight(zipper).ok
    /\ lastErr # "none" =>
           /\ lastErr = "NavigationError"
           /\ lastCmd = "^" => zipper.parents = <<>>
           /\ lastCmd = "." => ~IsUnary(zipper.expr)
           /\ lastCmd \in {"<", ">"} => ~IsBinary(zipper.expr)

\* move_arg has just failed on a binary operation.
C7_Witness ==
    /\ lastCmd = "." /\ lastErr = "NavigationError"
    /\ IsBinary(zipper.expr)

\* The Direction a Parent frame stands for.
DirectionOf(parent) ==
    CASE parent.hole = "arg" -> ARG
      [] parent.hole = "left" -> LEFT
      [] parent.hole = "right" -> RIGHT

\* C8: to_top returns one Direction per ancestor frame (ARG for NotHole, LEFT
\* for BinOpHoleLeft, RIGHT for BinOpHoleRight), outermost frame first, and
\* (focus, empty path) when there are no ancestors.
C8_ToTopPathIsReversedAncestors ==
    LET top == ToTop(zipper)
        n == Len(zipper.parents)
    IN /\ Len(top.directions) = n
       /\ \A i \in 1..n : top.directions[i] = DirectionOf(zipper.parents[n + 1 - i])
       /\ n = 0 => top = [expr |-> zipper.expr, directions |-> <<>>]

\* Three ancestors whose directions are not a palindrome.
C8_Witness ==
    /\ Len(zipper.parents) = 3
    /\ zipper.parents[1].hole # zipper.parents[3].hole
    /\ lastCmd \in DownwardMoves /\ lastErr = "none"

----------------------------------------------------------------------------
(* Axiom claims, checked under SpecAxioms.                                  *)

\* C9: whenever an axiom function (apply_commutativity, apply_identity,
\* introduce_or_false, introduce_and_true, distribute, factor,
\* apply_complements, expand_into_complements with any a) returns a result,
\* the result has the truth value of the input under every assignment.
C9_AxiomsPreserveMeaning ==
    axOut.ok => Equivalent(axOut.val, axIn)

\* factor has returned a result for an input that mentions both variables.
C9_Witness ==
    /\ axName = "factor" /\ axOut.ok
    /\ axIn.left.left = Variable("a")
    /\ axIn.left.right = Variable("b")
    /\ axIn.right.right = T

\* C10: introduce_or_false and introduce_and_true succeed on every expression
\* and apply_identity of the result is the expression again.
C10_IdentityUndoesIntroduction ==
    axName \in {"introduce_or_false", "introduce_and_true"} =>
        /\ axOut.ok
        /\ ApplyIdentity(axOut.val) = Ok(axIn)

\* introduce_and_true has been applied to an expression that itself ends in
\* an identity element, (e | F).
C10_Witness ==
    /\ axName = "introduce_and_true" /\ axOut.ok
    /\ IsBinary(axIn) /\ axIn.op = "|" /\ axIn.right = F

\* C11: apply_commutativity succeeds exactly on binary operations, raises
\* ActionError on a Boolean, a Variable and a Not, and applying it to its own
\* result gives the expression back.
C11_CommutativityIsInvolutionOnBinOps ==
    axName = "apply_commutativity" =>
        /\ axOut.ok <=> IsBinary(axIn)
        /\ ~axOut.ok => axOut.err = "ActionError"
        /\ axOut.ok => ApplyCommutativity(axOut.val) = Ok(axIn)

\* apply_commutativity has exchanged two different operands, one of them an
\* operation itself.
C11_Witness ==
    /\ axName = "apply_commutativity" /\ axOut.ok
    /\ axIn.left # axIn.right
    /\ ~IsValue(axIn.left)

\* C12: whenever distribute returns a result for e, factor returns a result
\* for distribute(e) and that result is e.
C12_FactorUndoesDistribute ==
    (axName = "distribute" /\ axOut.ok) => Factor(axOut.val) = Ok(axIn)

\* distribute has returned for (a & (b | T)).
C12_Witness ==
    /\ axName = "distribute" /\ axOut.ok
    /\ axIn.op = "&"
    /\ axIn.left = Variable("a")
    /\ axIn.right.left = Variable("b")
    /\ axIn.right.right = T

\* C13: on (a op (!a)), op in {|, &}, apply_complements returns a boolean
\* from which expand_into_complements with the witness a gives (a op (!a))
\* back; and apply_complements of an expansion gives back the boolean expanded.
C13_ComplementsAreMutualInverses ==
    /\ axName = "apply_complements" =>
          /\ (IsBinary(axIn) /\ axIn.right = UnaryExpr("!", axIn.left)) =>
                 /\ axOut.ok
                 /\ ExpandIntoComplements(axOut.val, axIn.left) = Ok(axIn)
          /\ axOut.ok => ExpandIntoComplements(axOut.val, axIn.left) = Ok(axIn)
    /\ (axName = "expand_into_complements" /\ axOut.ok) =>
          ApplyComplements(axOut.val) = Ok(axIn)

\* apply_complements has returned F for (b & (!b)).
C13_Witness ==
    /\ axName = "apply_complements" /\ axOut.ok
    /\ axIn = BinaryExpr(Variable("b"), "&", UnaryExpr("!", Variable("b")))
    /\ axOut.val = F

\* The shape distribute reads: (a op0 (b op1 c)) with op1 the other operator.
DistributeShape(e) ==
    IsBinary(e) /\ IsBinary(e.right) /\ e.right.op # e.op

\* C23: distribute returns exactly on (a op0 (b op1 c)) with op1 the dual of
\* op0, and returns ((a op0 b) op1 (a op0 c)); on every other input (equal
\* operators, a right operand that is no binary operation, no binary
\* operation at all) it raises ActionError.
C23_DistributeExactlyOnDualShape ==
    axName = "distribute" =>
        IF DistributeShape(axIn)
        THEN axOut = Ok(BinaryExpr(BinaryExpr(axIn.left, axIn.op, axIn.right.left),
                                   axIn.right.op,
                                   BinaryExpr(axIn.left, axIn.op, axIn.right.right)))
        ELSE axOut = Raise("ActionError")

\* distribute has refused (a & (b & T)), whose two operators are equal.
C23_Witness ==
    /\ axName = "distribute"
    /\ axIn = BinaryExpr(Variable("a"), "&", BinaryExpr(Variable("b"), "&", T))
    /\ axOut = Raise("ActionError")

\* The shape factor reads: ((a op0 b) op1 (a2 op0 c)) with op1 the other
\* operator and a equal to a2 in all its depth.
FactorShape(e) ==
    /\ IsBinary(e) /\ IsBinary(e.left) /\ IsBinary(e.right)
    /\ e.left.op = e.right.op
    /\ e.op # e.left.op
    /\ e.left.left = e.right.left

\* C24: factor returns exactly on ((a op0 b) op1 (a2 op0' c)) with op0 = op0',
\* op1 the dual of op0 and a deeply equal to a2, and returns
\* (a op0 (b op1 c)); otherwise it raises ActionError, also when only the
\* right operands of the two inner operations are equal.
C24_FactorExactlyOnSharedLeftOperand ==
    axName = "factor" =>
        /\ IF FactorShape(axIn)
           THEN axOut = Ok(BinaryExpr(axIn.left.left, axIn.left.op,
                                      BinaryExpr(axIn.left.right, axIn.op, axIn.right.right)))
           ELSE axOut = Raise("ActionError")
        /\ (/\ IsBinary(axIn) /\ IsBinary(axIn.left) /\ IsBinary(axIn.right)
            /\ axIn.left.right = axIn.right.right
            /\ axIn.left.left # axIn.right.left) => axOut = Raise("ActionError")

\* factor has refused (((a & b) | T) & ((b & a) | T)): the left operands are
\* operations of one shape that differ inside.
C24_Witness ==
    /\ axName = "factor"
    /\ axIn = BinaryExpr(
                 BinaryExpr(BinaryExpr(Variable("a"), "&", Variable("b")), "|", T),
                 "&",
                 BinaryExpr(BinaryExpr(Variable("b"), "&", Variable("a")), "|", T))
    /\ axOut = Raise("ActionError")

\* C25: apply_complements returns T exactly on (a | (!a2)) and F exactly on
\* (a & (!a2)) with a equal to a2; on every other input (a differs from a2,
\* the negation on the left, a right operand that is no Not, no binary
\* operation) it raises ActionError.
C25_ComplementsExactlyOnNegatedRight ==
    axName = "apply_complements" =>
        LET shape == /\ IsBinary(axIn) /\ IsUnary(axIn.right)
                     /\ axIn.right.arg = axIn.left
        IN /\ (shape /\ axIn.op = "|") => axOut = Ok(T)
           /\ (shape /\ axIn.op = "&") => axOut = Ok(F)
           /\ ~shape => axOut = Raise("ActionError")
           /\ axOut.ok => shape

\* apply_complements has refused ((!a) | a), the negation on the left.
C25_Witness ==
    /\ axName = "apply_complements"
    /\ axIn = BinaryExpr(UnaryExpr("!", Variable("a")), "|", Variable("a"))
    /\ axOut = Raise("ActionError")

\* C27: whenever factor returns a result for e, distribute returns a result
\* for factor(e) and that result is e.
C27_DistributeUndoesFactor ==
    (axName = "factor" /\ axOut.ok) => Distribute(axOut.val) = Ok(axIn)

\* factor has returned for (((!a) | a) & ((!a) | T)), the shared operand an
\* operation.
C27_Witness ==
    /\ axName = "factor" /\ axOut.ok
    /\ axIn = BinaryExpr(BinaryExpr(UnaryExpr("!", Variable("a")), "|", Variable("a")),
                         "&",
                         BinaryExpr(UnaryExpr("!", Variable("a")), "|", T))

----------------------------------------------------------------------------
(* interactive.py: the commands and the loop of main.                       *)

\* str.startswith
StartsWith(str, prefix) ==
    Len(str) >= Len(prefix) /\ SubSeq(str, 1, Len(prefix)) = prefix

\* str.removeprefix
RemovePrefix(str, prefix) ==
    IF StartsWith(str, prefix) THEN SubSeq(str, Len(prefix) + 1, Len(str)) ELSE str

RECURSIVE StripLeft(_)
StripLeft(str) ==
    IF str # <<>> /\ IsSpace(Head(str)) THEN StripLeft(Tail(str)) ELSE str

RECURSIVE StripRight(_)
StripRight(str) ==
    IF str # <<>> /\ IsSpace(str[Len(str)])
    THEN StripRight(SubSeq(str, 1, Len(str) - 1))
    ELSE str

\* str.strip
Strip(str) == StripRight(StripLeft(str))

\* Zipper -> Zipper functions: a navigation method, or _transformer(action).
MoveTransformer(move) == [kind |-> "move", move |-> move]
Transformer(action) == [kind |-> "transform", action |-> action]

\* zipper_transformer(zipper)
Run(zipper_transformer, z) ==
    IF zipper_transformer.kind = "move"
    THEN CASE zipper_transformer.move = "^" -> MoveUp(z)
           [] zipper_transformer.move = "." -> MoveArg(z)
           [] zipper_transformer.move = "<" -> MoveLeft(z)
           [] zipper_transformer.move = ">" -> MoveRight(z)
    ELSE Transform(z, zipper_transformer.action)

_CommandWithoutArgument(id, name, zipper_transformer) ==
    [id |-> id, name |-> name, with_argument |-> FALSE,
     zipper_transformer |-> zipper_transformer]
_CommandWithArgument(id, name) ==
    [id |-> id, name |-> name, with_argument |-> TRUE]

\* commands, in the order of the list; id is the name as one string.
commands ==
    <<_CommandWithArgument("r!", <<"r", "!">>),
      _CommandWithoutArgument("^", <<"^">>, MoveTransformer("^")),
      _CommandWithoutArgument(".", <<".">>, MoveTransformer(".")),
      _CommandWithoutArgument("<", <<"<">>, MoveTransformer("<")),
      _CommandWithoutArgument(">", <<">">>, MoveTransformer(">")),
      _CommandWithoutArgument("c", <<"c">>, Transformer(AxiomAction("apply_commutativity"))),
      _CommandWithoutArgument("i", <<"i">>, Transformer(AxiomAction("apply_identity"))),
      _CommandWithoutArgument("|F", <<"|", "F">>, Transformer(AxiomAction("introduce_or_false"))),
      _CommandWithoutArgument("&T", <<"&", "T">>, Transformer(AxiomAction("introduce_and_true"))),
      _CommandWithoutArgument("d", <<"d">>, Transformer(AxiomAction("distribute"))),
      _CommandWithoutArgument("f", <<"f">>, Transformer(AxiomAction("factor"))),
      _CommandWithoutArgument("v", <<"v">>, Transformer(AxiomAction("apply_complements"))),
      _CommandWithArgument("x", <<"x">>)>>

\* zipper_transformer_with_argument(argument) of the two commands that take one.
TransformerWithArgument(id, argument) ==
    IF id = "r!" THEN Transformer(ConstAction(argument))
    ELSE Transformer(ExpandAction(argument))

\* parse(tokenize(argument_input))
ParseText(text) ==
    LET stream == Tokenize(text)
    IN IF stream.ok THEN Parse(stream.val) ELSE stream

\* What the search found: the command's id and the transformer or the error.
Found(id, outcome) == [id |-> id, outcome |-> outcome]

RECURSIVE SearchCommands(_, _)
\* The for loop of _get_zipper_transformer from commands[i] on.
SearchCommands(user_input, i) ==
    IF i > Len(commands)
    THEN Found("unrecognized", Raise("CommandError"))
    ELSE LET command == commands[i]
             name == command.name
         IN IF ~command.with_argument
            THEN IF user_input = name
                 THEN Found(command.id, Ok(command.zipper_transformer))
                 ELSE IF StartsWith(user_input, name \o <<" ">>)
                 THEN Found(command.id, Raise("CommandError"))
                 ELSE SearchCommands(user_input, i + 1)
            ELSE IF user_input = name
                 THEN Found(command.id, Raise("CommandError"))
                 ELSE IF StartsWith(user_input, name \o <<" ">>)
                 THEN LET argument_input == Strip(RemovePrefix(user_input, name))
                          argument == ParseText(argument_input)
                      IN IF argument.ok
                         THEN Found(command.id,
                                    Ok(TransformerWithArgument(command.id, argument.val)))
                         ELSE Found(command.id, argument)
                 ELSE SearchCommands(user_input, i + 1)

\* _get_zipper_transformer
GetZipperTransformer(user_input) == SearchCommands(user_input, 1)

\* The exceptions main catches.
Caught == {"ActionError", "CommandError", "NavigationError", "ParseError"}

\* Lines the user types.
UserInputs ==
    {<<"^">>,
     <<".">>,
     <<"<">>,
     <<">">>,
     <<"c">>,
     <<"i">>,
     <<"|", "F">>,
     <<"&", "T">>,
     <<"d">>,
     <<"f">>,
     <<"v">>,
     <<"r", "!", " ", "T">>,
     <<"r", "!", " ", "a">>,
     <<"r", "!", " ", "(", "!", "T", ")">>,
     <<"r", "!", " ", " ", "[", " ", "F", "|", "T", " ", "]">>,
     <<"x", " ", "a">>,
     <<"r", "!">>,
     <<"x">>,
     <<"c", " ", "a">>,
     <<"r", "!", "a">>,
     <<"?">>,
     <<"r", "!", " ", "(", "a">>,
     <<"r", "!", " ", "a", ")">>,
     <<"r", "!", " ", "(", "a", "]">>,
     <<"r", "!", " ", "a", "&", "a">>,
     <<"r", "!", " ", "A">>,
     <<"x", " ", "(", "a", ")">>,
     <<>>,
     <<"h", "e", "l", "p">>,
     <<"q", "!">>,
     <<" ", "^", " ">>}

\* The model follows a command only while the expression stays within the
\* bounds: the whole expression must fit MaxExprSize after a command that
\* brings in new material (r!, x, |F, &T) and MaxDistributeSize after d; the
\* other commands never enlarge it.
WithinBounds(result, id) ==
    LET after == Size(ToTop(result).expr)
    IN /\ id \in {"r!", "x", "|F", "&T"} => after <= MaxExprSize
       /\ id = "d" => after <= MaxDistributeSize

Init ==
    /\ zipper = Zipper(F, <<>>)
    /\ lastCmd = "" /\ lastErr = "none" /\ running = TRUE
    /\ start = Idle
    /\ axName = "none" /\ axIn = NoExpr /\ axArg = NoExpr /\ axOut = Raise("none")
    /\ srcFn = "none" /\ srcIn = NoInput /\ srcOut = Raise("none")

\* user_input = input('> ').strip(), for each line.
Stripped == [line \in UserInputs |-> Strip(line)]

\* _get_zipper_transformer(user_input), for each line.
Transformers == [line \in UserInputs |-> GetZipperTransformer(Stripped[line])]

\* zipper = zipper_transformer(zipper), reached only when
\* _get_zipper_transformer returned: the new zipper, or the exception.
RunOutcome(outcome, z) ==
    IF outcome.ok THEN Run(outcome.val, z) ELSE outcome

\* The body of the try block of main: the new zipper, or the exception.
TryCommand(z, line) == RunOutcome(Transformers[line].outcome, z)

\* Mutant: a failed command leaves the loop with a fresh zipper.
ZipperAfterResetting(z, result) ==
    IF result.ok THEN result.val ELSE Zipper(F, <<>>)

\* The zipper variable of main after the try statement: assigned only when
\* the transformer returned.
ZipperAfter(z, result) ==
    IF result.ok THEN result.val ELSE z

\* The try statement of main with the outcome `result` of its body: the
\* zipper is assigned only on success, the four caught exceptions are
\* reported and the loop goes on, any other exception ends the program.
TryStatement(id, result) ==
    /\ result.ok => WithinBounds(result.val, id)
    /\ zipper' = ZipperAfter(zipper, result)
    /\ lastErr' = IF result.ok THEN "none" ELSE result.err
    /\ running' = (result.ok \/ result.err \in Caught)

\* The branches of the loop body of main on the stripped line.
LoopBody(id, user_input, result) ==
    IF user_input = <<"h", "e", "l", "p">>
    THEN /\ lastErr' = "none"
         /\ UNCHANGED <<zipper, running>>
    ELSE IF user_input = <<"q", "!">>
    THEN /\ lastErr' = "none"
         /\ running' = FALSE
         /\ UNCHANGED zipper
    ELSE IF user_input = <<>>
    THEN /\ lastErr' = "none"
         /\ UNCHANGED <<zipper, running>>
    ELSE TryStatement(id, result)

\* One iteration of the while loop of main on the line `line`, which is
\* dispatched to the command `id`; lastCmd records the command.  The actions
\* take it while the program is running.
Iteration(id, line) ==
    /\ lastCmd' = id
    /\ UNCHANGED <<start, axName, axIn, axArg, axOut, srcFn, srcIn, srcOut>>
    /\ LoopBody(id, Stripped[line], TryCommand(zipper, line))

\* The command a line is dispatched to.
Dispatched(line) ==
    LET user_input == Stripped[line]
    IN IF user_input = <<"h", "e", "l", "p">> THEN "help"
       ELSE IF user_input = <<"q", "!">> THEN "q!"
       ELSE IF user_input = <<>> THEN ""
       ELSE Transformers[line].id

\* The lines dispatched to each command.
LinesFor == [id \in {Dispatched(line) : line \in UserInputs} |->
                {line \in UserInputs : Dispatched(line) = id}]

Help == \E line \in LinesFor["help"] : running /\ Iteration("help", line)
Quit == \E line \in LinesFor["q!"] : running /\ Iteration("q!", line)
Blank == \E line \in LinesFor[""] : running /\ Iteration("", line)
Unrecognized == \E line \in LinesFor["unrecognized"] : running /\ Iteration("unrecognized", line)
Replace == \E line \in LinesFor["r!"] : running /\ Iteration("r!", line)
Up == \E line \in LinesFor["^"] : running /\ Iteration("^", line)
Arg == \E line \in LinesFor["."] : running /\ Iteration(".", line)
Left == \E line \in LinesFor["<"] : running /\ Iteration("<", line)
Right == \E line \in LinesFor[">"] : running /\ Iteration(">", line)
Commutativity == \E line \in LinesFor["c"] : running /\ Iteration("c", line)
Identity == \E line \in LinesFor["i"] : running /\ Iteration("i", line)
OrFalse == \E line \in LinesFor["|F"] : running /\ Iteration("|F", line)
AndTrue == \E line \in LinesFor["&T"] : running /\ Iteration("&T", line)
Distributivity == \E line \in LinesFor["d"] : running /\ Iteration("d", line)
Factoring == \E line \in LinesFor["f"] : running /\ Iteration("f", line)
Complements == \E line \in LinesFor["v"] : running /\ Iteration("v", line)
Expand == \E line \in LinesFor["x"] : running /\ Iteration("x", line)

Next ==
    \/ Help \/ Quit \/ Blank \/ Unrecognized
    \/ Replace \/ Up \/ Arg \/ Left \/ Right
    \/ Commutativity \/ Identity \/ OrFalse \/ AndTrue
    \/ Distributivity \/ Factoring \/ Complements \/ Expand

Spec == Init /\ [][Next]_vars

----------------------------------------------------------------------------
(* Claims about the interactive loop, checked under Spec.                   *)

\* The commands that go through Zipper.transform.
TransformCommands == {"r!", "c", "i", "|F", "&T", "d", "f", "v", "x"}

\* The Expr -> Expr functions a command can hand to transform, over the lines.
ActionsOf(id) ==
    {Transformers[line].outcome.val.action :
        line \in {l \in LinesFor[id] : Transformers[l].outcome.ok}}

\* C4: when a command fails with ActionError, CommandError, NavigationError or
\* ParseError (a bad expression argument included), the loop goes on with the
\* zipper it had; a command that succeeds replaces it with the full result.
C4_FailedCommandKeepsZipper ==
    [][/\ lastErr' \in Caught => zipper' = zipper /\ running'
       /\ (lastErr' = "none" /\ lastCmd' \in Moves \cup TransformCommands) =>
              \E line \in LinesFor[lastCmd'] : TryCommand(zipper, line) = Ok(zipper')]_vars

\* r! has just failed on its argument while the focus was below the top of
\* an expression other than the initial one.
C4_Witness ==
    /\ lastCmd = "r!" /\ lastErr = "ParseError"
    /\ zipper.parents # <<>>
    /\ zipper.expr # F
    /\ running

\* A Parent frame: NotHole, BinOpHoleLeft(op, right) or BinOpHoleRight(op, left).
IsParent(parent) ==
    /\ "hole" \in DOMAIN parent
    /\ CASE parent.hole = "arg" ->
              DOMAIN parent = {"hole", "op"} /\ parent.op \in UnaryOps
         [] parent.hole = "left" ->
              /\ DOMAIN parent = {"hole", "op", "right"}
              /\ parent.op \in BinaryOps
              /\ IsExpr(parent.right)
         [] parent.hole = "right" ->
              /\ DOMAIN parent = {"hole", "op", "left"}
              /\ parent.op \in BinaryOps
              /\ IsExpr(parent.left)
         [] OTHER -> FALSE

\* Wrap the focus in one frame.
Wrap(parent, expr) ==
    CASE parent.hole = "arg" -> UnaryExpr(parent.op, expr)
      [] parent.hole = "left" -> BinaryExpr(expr, parent.op, parent.right)
      [] parent.hole = "right" -> BinaryExpr(parent.left, parent.op, expr)

RECURSIVE WrapAll(_, _)
\* Wrap the focus through the ancestors, innermost first.
WrapAll(parents, expr) ==
    IF parents = <<>> THEN expr
    ELSE WrapAll(Tail(parents), Wrap(Head(parents), expr))

\* C5: every zipper the loop reaches from Zipper('F', no ancestors) is
\* well-formed: the focus is an Expr, every ancestor is one of the three
\* frames with a valid operator and sibling, and wrapping the focus through
\* the ancestors, innermost first, gives an Expr.
C5_ReachableZippersWellFormed ==
    /\ DOMAIN zipper = {"expr", "parents"}
    /\ IsExpr(zipper.expr)
    /\ \A i \in 1..Len(zipper.parents) : IsParent(zipper.parents[i])
    /\ IsExpr(WrapAll(zipper.parents, zipper.expr))

\* x has just expanded a boolean that is the argument of a negation.
C5_Witness ==
    /\ lastCmd = "x" /\ lastErr = "none"
    /\ zipper.parents # <<>>
    /\ IsBinary(zipper.expr) /\ IsUnary(zipper.expr.right)

RECURSIVE ReplaceAt(_, _, _)
\* expr with the subexpression at `path` replaced by `sub`.
ReplaceAt(expr, path, sub) ==
    IF path = <<>> THEN sub
    ELSE CASE Head(path) = ARG ->
                UnaryExpr(expr.op, ReplaceAt(expr.arg, Tail(path), sub))
           [] Head(path) = LEFT ->
                BinaryExpr(ReplaceAt(expr.left, Tail(path), sub), expr.op, expr.right)
           [] Head(path) = RIGHT ->
                BinaryExpr(expr.left, expr.op, ReplaceAt(expr.right, Tail(path), sub))

\* C6: z.transform(f) has focus f(z.focus) and the ancestors of z; to_top of
\* it returns the path of z and the top-level expression of z with the
\* subexpression at that path replaced by f(z.focus).
C6_TransformChangesFocusOnly ==
    [][(lastCmd' \in TransformCommands /\ lastErr' = "none") =>
          LET before == ToTop(zipper)
              after == ToTop(zipper')
          IN /\ zipper'.parents = zipper.parents
             /\ \E f \in ActionsOf(lastCmd') : Call(f, zipper.expr) = Ok(zipper'.expr)
             /\ after.directions = before.directions
             /\ after.expr = ReplaceAt(before.expr, before.directions, zipper'.expr)]_vars

\* c has just exchanged two different operands two levels below the top.
C6_Witness ==
    /\ lastCmd = "c" /\ lastErr = "none"
    /\ Len(zipper.parents) >= 2
    /\ zipper.expr.left # zipper.expr.right

----------------------------------------------------------------------------
(* SpecSource: the functions of source.py applied to bounded texts, token   *)
(* streams and zippers.                                                     *)

\* Characters of the short texts: a variable, a boolean, the operators, two
\* kinds of bracket, a space and a character tokenize does not know.
TextAlphabet == {"a", "T", "!", "&", "(", ")", "[", "]", " ", "A"}

\* How an expression is written: the bracket used at each depth (an index
\* into _opening_brackets, taken cyclically) and the whitespace.
BracketStyles == {<<1, 2, 3>>, <<1>>, <<2>>, <<3>>, <<3, 1, 2>>, <<2, 1>>}
Spacings == {"canonical", "none", "wide"}

\* The whitespace written around a binary operator / after an opening bracket.
GapAroundOperator(spacing) ==
    CASE spacing = "canonical" -> <<" ">>
      [] spacing = "none" -> <<>>
      [] spacing = "wide" -> <<" ", "\t">>
GapInsideBracket(spacing) ==
    IF spacing = "wide" THEN <<" ">> ELSE <<>>

RECURSIVE Written(_, _, _, _)
\* A text of the syntax of source.py for expr, written in a style.
Written(expr, depth, style, spacing) ==
    LET bracket == style[(depth % Len(style)) + 1]
        open == <<OpeningBrackets[bracket]>> \o GapInsideBracket(spacing)
        close == GapInsideBracket(spacing) \o <<ClosingBrackets[bracket]>>
        gap == GapAroundOperator(spacing)
    IN IF expr.t = "bool" THEN <<expr.val>>
       ELSE IF expr.t = "var" THEN <<expr.name>>
       ELSE IF IsUnary(expr)
       THEN open \o <<expr.op>> \o Written(expr.arg, depth + 1, style, spacing) \o close
       ELSE open \o Written(expr.left, depth + 1, style, spacing)
                 \o gap \o <<expr.op>> \o gap
                 \o Written(expr.right, depth + 1, style, spacing) \o close

SourceValues == {T, Variable("a")}

\* The expressions that are written out as texts and as token streams.
WrittenExprs == ExprsUpTo(MaxWrittenSize, SourceValues)

\* The tokens of the streams given to parse directly.
StreamTokens ==
    {T, Variable("a"), Symbol("!"), Symbol("&"), Symbol("|"), Symbol("("), Symbol(")")}

RECURSIVE ExprStream(_)
\* The token stream of the fully bracketed writing of expr.
ExprStream(expr) ==
    IF IsValue(expr) THEN <<expr>>
    ELSE IF IsUnary(expr)
    THEN <<Symbol("("), Symbol(expr.op)>> \o ExprStream(expr.arg) \o <<Symbol(")")>>
    ELSE <<Symbol("(")>> \o ExprStream(expr.left) \o <<Symbol(expr.op)>>
         \o ExprStream(expr.right) \o <<Symbol(")")>>

\* stream without its i-th token / with token in its place.
WithoutToken(stream, i) == SubSeq(stream, 1, i - 1) \o SubSeq(stream, i + 1, Len(stream))
WithToken(stream, i, token) == [stream EXCEPT ![i] = token]

\* The FocusTokens of the short streams given to untokenize directly.
FocusTokens == {FocusToken(token, under_focus) : token \in StreamTokens, under_focus \in BOOLEAN}

\* A stream of brackets alone, all under focus or none.
BracketStream(brackets, under_focus) ==
    [i \in 1..Len(brackets) |-> FocusToken(brackets[i], under_focus)]

TextInput(text) == [text |-> text]
StreamInput(stream) == [stream |-> stream]
ZipperInput(z) == [zipper |-> z]
FocusInput(stream) == [focus |-> stream]
IsTextInput(input) == "text" \in DOMAIN input
IsStreamInput(input) == "stream" \in DOMAIN input
IsZipperInput(input) == "zipper" \in DOMAIN input
IsFocusInput(input) == "focus" \in DOMAIN input

\* The input of a run: a text for tokenize (every short text over the
\* alphabet, and every expression of WrittenExprs written in every style), a
\* token stream for parse, balanced or not (every short stream, and the stream
\* of every expression of WrittenExprs, whole or with one token removed or
\* replaced), a zipper for unparse (every focus of NavZippers), or a stream of
\* FocusTokens for untokenize, balanced or not (every short stream with every
\* choice of focus flags, every longer stream of brackets alone, and what
\* unparse returns for every focus of NavZippers).
SourceInput(input) ==
    \/ \E n \in 0..MaxTextLen : \E text \in [1..n -> TextAlphabet] :
          input = TextInput(text)
    \/ \E e \in WrittenExprs, style \in BracketStyles, spacing \in Spacings :
          input = TextInput(Written(e, 0, style, spacing))
    \/ \E n \in 0..MaxStreamLen : \E stream \in [1..n -> StreamTokens] :
          input = StreamInput(stream)
    \/ \E e \in WrittenExprs :
          \/ input = StreamInput(ExprStream(e))
          \/ \E i \in 1..Len(ExprStream(e)) :
                \/ input = StreamInput(WithoutToken(ExprStream(e), i))
                \/ \E token \in StreamTokens :
                      input = StreamInput(WithToken(ExprStream(e), i, token))
    \/ \E z \in NavZippers : input = ZipperInput(z)
    \/ \E n \in 0..MaxFocusLen : \E stream \in [1..n -> FocusTokens] :
          input = FocusInput(stream)
    \/ \E n \in 0..MaxBracketLen, under_focus \in BOOLEAN :
          \E brackets \in [1..n -> {Symbol("("), Symbol(")")}] :
             input = FocusInput(BracketStream(brackets, under_focus))
    \/ \E z \in NavZippers : input = FocusInput(Unparse(z))

InitSource ==
    /\ SourceInput(srcIn)
    /\ srcFn = "none" /\ srcOut = Raise("none")
    /\ zipper = Idle /\ start = Idle
    /\ lastCmd = "" /\ lastErr = "none" /\ running = FALSE
    /\ axName = "none" /\ axIn = NoExpr /\ axArg = NoExpr /\ axOut = Raise("none")

\* The variables a call of source.py leaves alone.
SourceCall(fn, result) ==
    /\ srcFn' = fn
    /\ srcOut' = result
    /\ UNCHANGED <<srcIn, zipper, start, lastCmd, lastErr, running,
                   axName, axIn, axArg, axOut>>

\* tokenize(text)
TokenizeText ==
    /\ IsTextInput(srcIn)
    /\ SourceCall("tokenize", Tokenize(srcIn.text))

\* parse(stream)
ParseStream ==
    /\ IsStreamInput(srcIn)
    /\ SourceCall("parse", Parse(srcIn.stream))

\* parse(tokenize(text))
ParseTokenized ==
    /\ IsTextInput(srcIn)
    /\ SourceCall("parse(tokenize)", ParseText(srcIn.text))

\* untokenize(unparse(Zipper(expr, None))) of an expression.
Render(expr) == Untokenize(Unparse(Zipper(expr, <<>>)))

\* The result of rendering what parse(tokenize(text)) returned.
RenderOutcome(parsed) == IF parsed.ok THEN Ok(Render(parsed.val)) ELSE parsed

\* untokenize(unparse(Zipper(parse(tokenize(text)), None)))
RenderParsed ==
    /\ IsTextInput(srcIn)
    /\ SourceCall("render", RenderOutcome(ParseText(srcIn.text)))

\* unparse(zipper)
UnparseZipper ==
    /\ IsZipperInput(srcIn)
    /\ SourceCall("unparse", Ok(Unparse(srcIn.zipper)))

\* untokenize(stream)
UntokenizeStream ==
    /\ IsFocusInput(srcIn)
    /\ SourceCall("untokenize", Ok(Untokenize(srcIn.focus)))

NextSource ==
    \/ TokenizeText \/ ParseStream \/ ParseTokenized \/ RenderParsed
    \/ UnparseZipper \/ UntokenizeStream

SpecSource == InitSource /\ [][NextSource]_vars

----------------------------------------------------------------------------
(* Claims about source.py, checked under SpecSource.                        *)

RECURSIVE CanonicalLoop(_, _, _)
\* The canonical form of the text from character i on, at bracket depth
\* `depth`: whitespace dropped, an opening or closing bracket renamed to the
\* one of its depth in the cycle ( [ {, one space on each side of & and |.
CanonicalLoop(text, i, depth) ==
    IF i > Len(text) THEN <<>>
    ELSE LET char == text[i]
         IN IF IsSpace(char) THEN CanonicalLoop(text, i + 1, depth)
            ELSE IF char \in SeqRange(OpeningBrackets)
            THEN <<OpeningBrackets[(depth % 3) + 1]>> \o CanonicalLoop(text, i + 1, depth + 1)
            ELSE IF char \in SeqRange(ClosingBrackets)
            THEN <<ClosingBrackets[((depth - 1) % 3) + 1]>>
                 \o CanonicalLoop(text, i + 1, depth - 1)
            ELSE IF char \in BinaryOps
            THEN <<" ", char, " ">> \o CanonicalLoop(text, i + 1, depth)
            ELSE <<char>> \o CanonicalLoop(text, i + 1, depth)

CanonicalForm(text) == CanonicalLoop(text, 1, 0)

\* C14: for every text s that tokenize and parse accept, the text component of
\* untokenize(unparse(Zipper(parse(tokenize(s)), None))) is the canonical form
\* of s; a canonical text renders back to itself.
C14_RenderOfParsedTextIsCanonical ==
    (srcFn = "render" /\ srcOut.ok) =>
        /\ srcOut.val[1] = CanonicalForm(srcIn.text)
        /\ CanonicalForm(srcIn.text) = srcIn.text => srcOut.val[1] = srcIn.text

\* A text nested four deep, in braces first and with wide whitespace, has
\* been rendered, and the rendering differs from it.
C14_Witness ==
    /\ srcFn = "render" /\ srcOut.ok
    /\ srcIn.text = Written(UnaryExpr("!", UnaryExpr("!", UnaryExpr("!",
                                UnaryExpr("!", Variable("a"))))), 0, <<3, 1, 2>>, "wide")
    /\ srcOut.val[1] # srcIn.text

IsSymbol(token, ch) == token.t = "sym" /\ token.ch = ch

\* Number of tokens `(` minus number of tokens `)` in the stream.
RECURSIVE Pending(_)
Pending(stream) ==
    IF stream = <<>> THEN 0
    ELSE LET last == stream[Len(stream)]
             rest == Pending(SubSeq(stream, 1, Len(stream) - 1))
         IN IF IsSymbol(last, "(") THEN rest + 1
            ELSE IF IsSymbol(last, ")") THEN rest - 1
            ELSE rest

\* Bracket-balanced: no prefix closes more than it opens, and the whole
\* stream closes all it opens.
Balanced(stream) ==
    /\ \A n \in 0..Len(stream) : Pending(SubSeq(stream, 1, n)) >= 0
    /\ Pending(stream) = 0

RECURSIVE InGrammar(_)
\* The fully bracketed grammar: a value, or a bracket group ( ! e ),
\* ( e & e ) or ( e | e ) of streams of the grammar.
InGrammar(stream) ==
    LET n == Len(stream)
    IN \/ n = 1 /\ stream[1].t \in {"bool", "var"}
       \/ /\ n >= 4
          /\ IsSymbol(stream[1], "(")
          /\ IsSymbol(stream[n], ")")
          /\ \/ IsSymbol(stream[2], "!") /\ InGrammar(SubSeq(stream, 3, n - 1))
             \/ \E k \in 3..(n - 2) :
                    /\ IsSymbol(stream[k], "&") \/ IsSymbol(stream[k], "|")
                    /\ InGrammar(SubSeq(stream, 2, k - 1))
                    /\ InGrammar(SubSeq(stream, k + 1, n - 1))

\* C15: on a bracket-balanced stream parse returns an expression exactly when
\* the stream is of the fully bracketed grammar, and raises ParseError on
\* every other balanced stream.
C15_ParseAcceptsExactlyTheGrammar ==
    (srcFn = "parse" /\ Balanced(srcIn.stream)) =>
        /\ srcOut.ok <=> InGrammar(srcIn.stream)
        /\ srcOut.ok => IsExpr(srcOut.val)
        /\ ~srcOut.ok => srcOut.err = "ParseError"

\* parse has rejected a balanced stream that nests a bracketed single value
\* inside a well-formed operation.
C15_Witness ==
    /\ srcFn = "parse" /\ ~srcOut.ok
    /\ srcIn.stream = <<Symbol("("), Symbol("!"), Symbol("("), T, Symbol(")"), Symbol(")")>>

IsOpening(char) == char \in SeqRange(OpeningBrackets)
IsClosing(char) == char \in SeqRange(ClosingBrackets)

RECURSIVE Unclosed(_)
\* The opening brackets of the text that are not closed within it, in the
\* order they were opened (a closing bracket closes the one opened last).
Unclosed(text) ==
    IF text = <<>> THEN <<>>
    ELSE LET char == text[Len(text)]
             before == Unclosed(SubSeq(text, 1, Len(text) - 1))
         IN IF IsOpening(char) THEN Append(before, char)
            ELSE IF IsClosing(char) /\ before # <<>>
            THEN SubSeq(before, 1, Len(before) - 1)
            ELSE before

\* Characters tokenize knows.
IsKnown(char) ==
    \/ IsSimpleToken(char) \/ IsLower(char) \/ IsSpace(char)
    \/ IsOpening(char) \/ IsClosing(char)

\* The closing bracket at position i has nothing to close / closes a bracket
\* of another type.
Unmatched(text, i) ==
    IsClosing(text[i]) /\ Unclosed(SubSeq(text, 1, i - 1)) = <<>>
BadMatch(text, i) ==
    LET open == Unclosed(SubSeq(text, 1, i - 1))
    IN /\ IsClosing(text[i])
       /\ open # <<>>
       /\ <<open[Len(open)], text[i]>> \notin BracketPairs

\* Positions where the scan of tokenize cannot go on.
Faults(text) ==
    {i \in 1..Len(text) : ~IsKnown(text[i]) \/ Unmatched(text, i) \/ BadMatch(text, i)}

FirstFault(text) == CHOOSE i \in Faults(text) : \A j \in Faults(text) : i <= j

RECURSIVE ProperlyNested(_)
\* A sequence of brackets that pairs up: empty, or some adjacent opening and
\* closing bracket of one type can be removed leaving a properly nested one.
ProperlyNested(brackets) ==
    \/ brackets = <<>>
    \/ \E i \in 1..(Len(brackets) - 1) :
          /\ <<brackets[i], brackets[i + 1]>> \in BracketPairs
          /\ ProperlyNested(SubSeq(brackets, 1, i - 1)
                            \o SubSeq(brackets, i + 2, Len(brackets)))

IsBracket(char) == IsOpening(char) \/ IsClosing(char)
BracketsOf(text) == SelectSeq(text, IsBracket)

IsBracketToken(token) == token.t = "sym" /\ token.ch \in {"(", ")"}
\* The normalized token of a bracket character.
Normalized(char) == IF IsOpening(char) THEN Symbol("(") ELSE Symbol(")")

\* C16: at the first closing bracket that has no unclosed opening bracket
\* before it tokenize raises ParseError (unmatched bracket); at the first one
\* whose most recently opened unclosed bracket is of another type it raises
\* ParseError (bad bracket match); otherwise the bracket is popped and `)` is
\* emitted, so tokenize returns only for texts whose brackets are properly
\* nested with matching types.
C16_ClosingBracketsMustMatch ==
    srcFn = "tokenize" =>
        LET text == srcIn.text
            brackets == BracketsOf(text)
        IN /\ Faults(text) # {} =>
                 LET i == FirstFault(text)
                     open == Unclosed(SubSeq(text, 1, i - 1))
                 IN /\ ~srcOut.ok /\ srcOut.err = "ParseError"
                    /\ Unmatched(text, i) =>
                          srcOut = ParseError("unmatched bracket", <<text[i]>>)
                    /\ BadMatch(text, i) =>
                          srcOut = ParseError("bad bracket match", <<open[Len(open)], text[i]>>)
           /\ srcOut.ok =>
                 /\ ProperlyNested(brackets)
                 /\ SelectSeq(srcOut.val, IsBracketToken)
                      = [k \in 1..Len(brackets) |-> Normalized(brackets[k])]

\* tokenize has stopped at a ] that meets an unclosed ( after a pair that
\* did match.
C16_Witness ==
    /\ srcFn = "tokenize"
    /\ srcIn.text = <<"(", "[", "]", "]">>
    /\ srcOut = ParseError("bad bracket match", <<"(", "]">>)

\* The text is scanned to its end and leaves brackets open.
EndsUnclosed(text) == Faults(text) = {} /\ Unclosed(text) # <<>>

\* C17 as stated: at the end of the input with brackets still open, tokenize
\* raises ParseError (unmatched bracket) citing the outermost, first-opened
\* unclosed bracket.
C17_CitesOutermostUnclosed ==
    (srcFn = "tokenize" /\ EndsUnclosed(srcIn.text)) =>
        srcOut = ParseError("unmatched bracket", <<Unclosed(srcIn.text)[1]>>)

\* C17 amended: at the end of the input with brackets still open, tokenize
\* raises ParseError (unmatched bracket) citing the innermost unclosed
\* bracket, the one opened last.
C17_CitesInnermostUnclosed ==
    (srcFn = "tokenize" /\ EndsUnclosed(srcIn.text)) =>
        srcOut = ParseError("unmatched bracket",
                            <<Unclosed(srcIn.text)[Len(Unclosed(srcIn.text))]>>)

\* tokenize has reached the end of a text that leaves ( and then [ open.
C17_Witness ==
    /\ srcFn = "tokenize"
    /\ Unclosed(srcIn.text) = <<"(", "[">>
    /\ EndsUnclosed(srcIn.text)
    /\ ~srcOut.ok /\ srcOut.cite = <<"[">>

\* The token `(` that the token `)` at position k closes: the nearest one
\* before it with as many `(` as `)` from it to k; 0 when there is none.
MatchingOpen(stream, k) ==
    LET opens == {j \in 1..(k - 1) :
                     IsSymbol(stream[j], "(") /\ Pending(SubSeq(stream, j, k)) = 0}
    IN IF opens = {} THEN 0 ELSE CHOOSE j \in opens : \A i \in opens : i <= j

\* The `)` at position k has no pending `(`.
StrayClose(stream, k) == IsSymbol(stream[k], ")") /\ MatchingOpen(stream, k) = 0

\* The `)` at position k closes a group that is not of the grammar.
MalformedGroup(stream, k) ==
    /\ IsSymbol(stream[k], ")")
    /\ MatchingOpen(stream, k) # 0
    /\ ~InGrammar(SubSeq(stream, MatchingOpen(stream, k), k))

\* Positions where the loop of parse cannot go on.
ParseFaults(stream) ==
    {k \in 1..Len(stream) : StrayClose(stream, k) \/ MalformedGroup(stream, k)}

FirstParseFault(stream) ==
    CHOOSE k \in ParseFaults(stream) : \A j \in ParseFaults(stream) : k <= j

\* C18 as stated: on a stream whose `(` and `)` are not balanced, parse fails
\* with its assertion, not with ParseError or any other error.
C18_UnbalancedStreamTripsAssertion ==
    (srcFn = "parse" /\ ~Balanced(srcIn.stream)) => srcOut = Raise("AssertionError")

\* C18 amended: on an unbalanced stream parse never returns an expression.  It
\* raises IndexError at the first `)` with no pending `(`, ParseError at the
\* first `)` whose bracket group is malformed, whichever comes first, and
\* fails with its assertion only when it reaches the end of the stream, a `(`
\* still pending.
C18_UnbalancedStreamNeverParses ==
    (srcFn = "parse" /\ ~Balanced(srcIn.stream)) =>
        LET stream == srcIn.stream
        IN /\ ~srcOut.ok
           /\ IF ParseFaults(stream) = {}
              THEN srcOut = Raise("AssertionError") /\ Pending(stream) > 0
              ELSE IF StrayClose(stream, FirstParseFault(stream))
              THEN srcOut = Raise("IndexError")
              ELSE srcOut.err = "ParseError"

\* parse has met a `)` with nothing open after a well-formed group.
C18_Witness ==
    /\ srcFn = "parse"
    /\ srcIn.stream = <<Symbol("("), Symbol("!"), T, Symbol(")"), Symbol(")")>>
    /\ srcOut = Raise("IndexError")

\* C19: every stream tokenize returns is bracket-balanced, and
\* parse(tokenize(s)) returns an expression or raises ParseError, never
\* IndexError and never the assertion.
C19_TokenizeGuardsParse ==
    /\ (srcFn = "tokenize" /\ srcOut.ok) => Balanced(srcOut.val)
    /\ srcFn = "parse(tokenize)" =>
          IF srcOut.ok THEN IsExpr(srcOut.val) ELSE srcOut.err = "ParseError"

\* A text tokenize accepts, nested brackets of two types around nothing,
\* has been rejected by parse.
C19_Witness ==
    /\ srcFn = "parse(tokenize)"
    /\ srcIn.text = <<"[", "(", ")", "]">>
    /\ ~srcOut.ok /\ srcOut.msg = "invalid syntax"

RECURSIVE TokenCount(_)
\* Number of tokens the expression is written with.
TokenCount(expr) ==
    IF IsValue(expr) THEN 1
    ELSE IF IsUnary(expr) THEN 3 + TokenCount(expr.arg)
    ELSE 3 + TokenCount(expr.left) + TokenCount(expr.right)

RECURSIVE TokensBefore(_, _)
\* Number of tokens of expr written before the subexpression at `path`.
TokensBefore(expr, path) ==
    IF path = <<>> THEN 0
    ELSE CASE Head(path) = ARG -> 2 + TokensBefore(expr.arg, Tail(path))
           [] Head(path) = LEFT -> 1 + TokensBefore(expr.left, Tail(path))
           [] Head(path) = RIGHT ->
                2 + TokenCount(expr.left) + TokensBefore(expr.right, Tail(path))

\* C20: the tokens of unparse(z) that are under focus are exactly the tokens
\* of one contiguous span, the span of the subexpression occurrence at z's
\* path with its own brackets, whatever equal subexpressions occur elsewhere;
\* with no ancestors every token is under focus.
C20_FocusRunIsSpanOfOccurrence ==
    srcFn = "unparse" =>
        LET z == srcIn.zipper
            stream == srcOut.val
            top == ToTop(z)
            first == TokensBefore(top.expr, top.directions) + 1
            last == first + TokenCount(z.expr) - 1
        IN /\ [i \in 1..Len(stream) |-> stream[i].token] = ExprStream(top.expr)
           /\ {i \in 1..Len(stream) : stream[i].under_focus} = first..last
           /\ z.parents = <<>> => \A i \in 1..Len(stream) : stream[i].under_focus

\* unparse has marked the right operand of an operation whose left operand
\* is the same expression, below the top.
C20_Witness ==
    /\ srcFn = "unparse"
    /\ Len(srcIn.zipper.parents) >= 2
    /\ srcIn.zipper.parents[1].hole = "right"
    /\ srcIn.zipper.parents[1].left = srcIn.zipper.expr

\* The tokens of a FocusToken stream, the focus flags dropped.
TokensOf(stream) == [i \in 1..Len(stream) |-> stream[i].token]

\* C26: the tokens of unparse(z), the focus flags dropped, parse back to the
\* top-level expression of z.to_top() and are the tokens of unparse of that
\* expression with no ancestors, wherever the focus of z is.
C26_UnparsedTokensParseToTop ==
    srcFn = "unparse" =>
        LET top == ToTop(srcIn.zipper)
        IN /\ Parse(TokensOf(srcOut.val)) = Ok(top.expr)
           /\ TokensOf(srcOut.val) = TokensOf(Unparse(Zipper(top.expr, <<>>)))

\* unparse has written a zipper focused on a value two levels down, under a
\* Not that is the left operand of a binary operation.
C26_Witness ==
    /\ srcFn = "unparse"
    /\ Len(srcIn.zipper.parents) = 2
    /\ IsValue(srcIn.zipper.expr)
    /\ srcIn.zipper.parents[1].hole = "arg"
    /\ srcIn.zipper.parents[2].hole = "left"
    /\ Len(srcOut.val) = 8

\* Length of the text a token is rendered with: 3 for & and | with their
\* spaces, 1 for every other token.
RenderedLength(token) ==
    IF token.t = "sym" /\ token.ch \in {"&", "|"} THEN 3 ELSE 1

\* Number of characters rendered for the tokens before the i-th.
RenderedBefore(tokens, i) ==
    (i - 1) + 2 * Cardinality({j \in 1..(i - 1) : RenderedLength(tokens[j]) = 3})

\* The text of a token that is no bracket; a bracket is one glyph of its kind.
IsTextOf(chars, token) ==
    IF token.t = "bool" THEN chars = <<token.val>>
    ELSE IF token.t = "var" THEN chars = <<token.name>>
    ELSE IF token.ch \in {"&", "|"} THEN chars = <<" ", token.ch, " ">>
    ELSE IF token.ch = "(" THEN Len(chars) = 1 /\ IsOpening(chars[1])
    ELSE IF token.ch = ")" THEN Len(chars) = 1 /\ IsClosing(chars[1])
    ELSE chars = <<token.ch>>

\* C21: for every FocusToken stream, balanced or not, the two strings of
\* untokenize have the same length, and each token, rendered with L
\* characters (3 for & and | with their spaces, 1 otherwise), has L
\* characters `^` under its text when it is under focus and L spaces when it
\* is not.
C21_FocusStringAlignsWithText ==
    srcFn = "untokenize" =>
        LET stream == srcIn.focus
            tokens == TokensOf(stream)
            expr_string == srcOut.val[1]
            focus_string == srcOut.val[2]
        IN /\ Len(expr_string) = Len(focus_string)
           /\ Len(expr_string) = RenderedBefore(tokens, Len(stream) + 1)
           /\ \A i \in 1..Len(stream) :
                 LET first == RenderedBefore(tokens, i) + 1
                     last == RenderedBefore(tokens, i) + RenderedLength(tokens[i])
                 IN /\ IsTextOf(SubSeq(expr_string, first, last), tokens[i])
                    /\ \A k \in first..last :
                          focus_string[k] = IF stream[i].under_focus THEN "^" ELSE " "

\* untokenize has written a stream that starts with a `)` nothing opened and
\* has an operator under focus next to a variable that is not.
C21_Witness ==
    /\ srcFn = "untokenize"
    /\ srcIn.focus = <<FocusToken(Symbol(")"), FALSE), FocusToken(Symbol("&"), TRUE),
                       FocusToken(Variable("a"), FALSE)>>
    /\ srcOut.val = << <<"}", " ", "&", " ", "a">>, <<" ", "^", "^", "^", " ">> >>

\* C22: for every bracket-balanced FocusToken stream, untokenize writes the
\* `(` of a pair at nesting depth d (0 for the outermost) as the glyph d mod 3
\* of ( [ { and its `)` as the glyph d mod 3 of ) ] }, so each closing glyph
\* pairs with the glyph of the `(` it closes, and tokenize of the text
\* returns the tokens of the stream.
C22_BalancedStreamRendersPairedGlyphs ==
    (srcFn = "untokenize" /\ Balanced(TokensOf(srcIn.focus))) =>
        LET tokens == TokensOf(srcIn.focus)
            expr_string == srcOut.val[1]
        IN /\ \A i \in 1..Len(tokens) :
                 IsSymbol(tokens[i], "(") =>
                    expr_string[RenderedBefore(tokens, i) + 1]
                       = OpeningBrackets[(Pending(SubSeq(tokens, 1, i - 1)) % 3) + 1]
           /\ \A k \in 1..Len(tokens) :
                 IsSymbol(tokens[k], ")") =>
                    LET j == MatchingOpen(tokens, k)
                    IN /\ j # 0
                       /\ expr_string[RenderedBefore(tokens, k) + 1]
                             = ClosingBrackets[(Pending(SubSeq(tokens, 1, j - 1)) % 3) + 1]
                       /\ <<expr_string[RenderedBefore(tokens, j) + 1],
                              expr_string[RenderedBefore(tokens, k) + 1]>> \in BracketPairs
           /\ Tokenize(expr_string) = Ok(tokens)

\* untokenize has written four pairs nested in one another: the glyphs start
\* over at the fourth.
C22_Witness ==
    /\ srcFn = "untokenize"
    /\ srcOut.val[1] = <<"(", "[", "{", "(", ")", "}", "]", ")">>

====
